---- MODULE Spec2Model ----
(***************************************************************************)
(* A model of k6's caching DNS resolver (lib/netext/resolver.go) and of    *)
(* its configuration consolidation (config package, archive command),      *)
(* with its executors, validateConfig, the dialer (lib/netext/dialer.go),  *)
(* the progress bar (ui/pb) and ExecutionState's pool of VUs.              *)
(*                                                                         *)
(* The resolver is modelled at the granularity of its accesses to shared   *)
(* state: every step of a Resolve call begins with at most one access to   *)
(* the per-host family map r.ip4 or to the CNAME cache r.cname.            *)
(***************************************************************************)
EXTENDS Integers, Sequences, FiniteSets, TLC

VARIABLES
    ip4avail,   \* package variable ip4: an IPv4 interface was detected
    ip6avail,   \* package variable ip6: an IPv6 interface was detected
    readFiles,  \* nsswitch.conf was read and lists "files" for "hosts"
    zone,       \* MockResolver.hosts: the data served by the BaseResolver
    now,        \* the wall clock (time.Now), in seconds
    cache,      \* Resolver.cache: the DNS response cache
    ip4,        \* Resolver.ip4: host -> IPv4 last seen
    cname,      \* Resolver.cname: the expiring CNAME cache
    rctx,       \* Resolver.ctx: the context of the last Resolve call
    proc,       \* the callers of Resolve: position and locals of each
    asks,       \* the (host, depth) pairs the callers hand to Resolve
    sets,       \* the (host, record) pairs handed to SetRR
    nset,       \* the number of SetRR calls so far
    looked,     \* history: the names handed to lookup so far
    sources,    \* archive: the Config of the file, the CLI flags, the environment
    fails,      \* archive: the sources whose getter returns an error
    script,     \* archive: the options the script exports (Runner.GetOptions)
    conf,       \* archive: the local conf of RunE
    cerr,       \* archive: the error RunE returned
    stage,      \* archive: the position of RunE
    applied,    \* archive: history: the conf handed to DeriveAndValidate
    excfg,      \* executor: its configuration
    exst,       \* executor: the position of Run
    vu,         \* shared iterations: position and locals of each VU
    attempted,  \* shared iterations: the shared iteration counter
    claims,     \* history: how often each iteration number was claimed
    doneIters,  \* the test's counter of calls of the runner function
    expired,    \* shared iterations: maxDuration has expired
    clk,        \* ramping VUs: the time since Run began, in 100ms
    cur,        \* ramping VUs: the index of the current stage
    activeVUs,  \* ExecutionState: the number of currently active VUs
    result,     \* the test's samples of the number of active VUs
    \* validateConfig
    errList,    \* the errors conf.Validate() returns
    valErr,     \* the error validateConfig returned
    valst,      \* validateConfig: "none", "call" or "returned"
    \* the dialer (lib/netext/dialer.go)
    Hosts,      \* d.Hosts: the addresses of the overridden hosts
    Blacklist,  \* d.Blacklist, as the set of the addresses it contains
    Metacache,  \* d.Metacache: per host, IPv4 was seen last
    dnsr,       \* what d.Resolver.ResolveErr answers, per host and type
    attempts,   \* the addresses handed to net.Dialer.DialContext so far
    dcall,      \* the last call of DialContext: address, result, questions
    \* the progress bar (ui/pb)
    pb,         \* the ProgressBar's fields left, progress and hijack
    mutex,      \* pb.mutex: a writer holds it (w), the number of readers (r)
    modp,       \* the goroutine that calls Modify
    rdp,        \* the goroutines that call Render and Left
    snaps,      \* the fields at construction and after each Modify returned
    \* ExecutionState's pool of VUs
    maxPossibleVUs, \* the ceiling given to NewExecutionState
    number,     \* initializeVUs: the number of VUs to initialize
    serial,     \* the internal serial: the ID of the last VU initialized
    newVUs,     \* the VUs initialized and not yet added to the pool
    initializedVUs, \* the idle pool, first in first out
    activeSet,  \* the VUs taken from the pool and not yet returned
    fullIterationCount,       \* VUs returned after a full iteration
    interruptedIterationCount, \* VUs returned after an interrupted one
    \* the dialer's byte counters
    BytesRead,  \* Dialer.BytesRead
    BytesWritten, \* Dialer.BytesWritten
    cio,        \* the goroutines in Conn.Read and Conn.Write
    gtp,        \* the goroutines in GetTrail
    trails,     \* history: the trails GetTrail has returned
    readTotal,  \* history: the bytes the connections have read
    writtenTotal, \* history: the bytes the connections have written
    \* the sources of the configuration
    fsys,       \* the file system: what is at each path
    cfgpath,    \* the path given with --config or K6_CONFIG
    environ,    \* the environment: the variables of each section
    rd          \* the call of ReadFromDisk or readEnvConfig and its return

cfgVars == <<sources, fails, script, conf, cerr, stage, applied>>

exVars == <<excfg, exst, vu, attempted, claims, doneIters, expired, clk, cur,
            activeVUs, result>>

resVars == <<ip4avail, ip6avail, readFiles, zone, now, cache, ip4, cname, rctx,
             proc, asks, sets, nset, looked>>

valVars == <<errList, valErr, valst>>

dialVars == <<Hosts, Blacklist, Metacache, dnsr, attempts, dcall>>

barVars == <<pb, mutex, modp, rdp, snaps>>

esVars == <<maxPossibleVUs, number, serial, newVUs, initializedVUs, activeSet,
            fullIterationCount, interruptedIterationCount>>

byteVars == <<BytesRead, BytesWritten, cio, gtp, trails, readTotal,
              writtenTotal>>

inVars == <<fsys, cfgpath, environ, rd>>

moreVars == <<byteVars, inVars>>

cmdVars == <<valVars, dialVars, barVars, esVars, moreVars>>

vars == <<resVars, cfgVars, exVars, cmdVars>>

----------------------------------------------------------------------------
(* Bounds of the model *)

MaxDepth == 5   \* largest depth argument handed to Resolve
MaxTime  == 2   \* the clock stops ticking here
MaxSetRR == 1   \* number of changes made to the zone
ZoneTTL  == 1   \* the TTL of the zone's records, in seconds
MaxVUs   == 3   \* largest number of VUs of the shared-iterations executor
MaxIterations == 3  \* largest number of iterations it is configured with
MaxErrors == 4  \* largest number of errors conf.Validate() collects
MaxDials == 2   \* number of connection attempts of the dialer
MaxModify == 2  \* number of calls of ProgressBar.Modify
MaxOptions == 2 \* largest number of options handed to one Modify
MaxPossible == 3 \* largest ceiling of an ExecutionState's number of VUs
MaxReturns == 4 \* number of VUs returned to the pool

(* Program constants *)

Expire == 600   \* cfg.Expire: lifetime of a cached response without records

----------------------------------------------------------------------------
(* Values *)

Names == {"a.", "b.", "c."}

\* Host strings handed to Resolve: a normal name, the same name not
\* normalised and an IP literal.
HostInputs == {"a.", "A", "10.0.0.1"}

\* Depth arguments handed to Resolve: those the chains of the zones can
\* exhaust (no chain has more than two hops) and the largest one.
Depths == {0, 1, 2, MaxDepth}

Callers == {1, 2}

Addr4 == "127.0.0.1"
Addr6 == "::1"

NoRR  == [typ |-> "none", ttl |-> 0, data |-> ""]
BadRR == [typ |-> "bad", ttl |-> 0, data |-> ""]

\* the records a host can have
RRs == [typ : {"A"}, ttl : {ZoneTTL}, data : {Addr4}]
         \cup [typ : {"AAAA"}, ttl : {ZoneTTL}, data : {Addr6}]
         \cup [typ : {"CNAME"}, ttl : {ZoneTTL}, data : Names]

\* the zones the BaseResolver starts with: every host has no record, a
\* record that does not parse or one record; the last name ends every chain
Zones == {z \in [Names -> {NoRR, BadRR} \cup RRs] : z["c."].typ # "CNAME"}

\* the changes made to the zone at runtime: a host moves to IPv6
Changes == Names \X {rr \in RRs : rr.typ = "AAAA"}

IPv4Addrs == {Addr4, "10.0.0.1"}
IPAddrs == IPv4Addrs \cup {Addr6}

\* net.IP.To4: TRUE iff the address is an IPv4 address
IsIP4(ip) == ip \in IPv4Addrs

\* The triple (ip, cname, err) returned by the lookups, as one value:
\* kind "ip" (val the address), "cname" (val the target, ttl the record's
\* TTL), "err" (val the error) or "nil" (all three nil).
Nil == [kind |-> "nil", val |-> "", ttl |-> 0]
IPRes(ip) == [kind |-> "ip", val |-> ip, ttl |-> 0]
CNameRes(rr) == [kind |-> "cname", val |-> rr.data, ttl |-> rr.ttl]
ErrRes(e) == [kind |-> "err", val |-> e, ttl |-> 0]

ErrUnable == "unable to resolve host address"
ErrNoNet == "network interface unavailable"
ErrTooLong == "CNAME chain too long"
ErrCycle == "cycle in CNAME chain"
ErrBase == "base resolver error"

----------------------------------------------------------------------------
(* Pure functions of resolver.go *)

\* net.ParseIP on the host strings of the model; one that parses none
ParseIPNever(host) == ""
ParseIP(host) == IF host \in IPAddrs THEN host ELSE ""

\* normalName: dns.Fqdn(strings.ToLower(name))
ToLower(s) == IF s = "A" THEN "a" ELSE s
Fqdn(s) == IF s = "a" THEN "a." ELSE s
normalName(name) == Fqdn(ToLower(name))

\* detectInterface: the flags after seeing one interface address, given
\* the flags f before. An address is "lo" (loopback or unspecified),
\* "v4" or "v6".
detectInterface(f, address) ==
    IF address # "lo"
    THEN [ip6 |-> (f.ip6 \/ address = "v6"), ip4 |-> TRUE]
    ELSE f

\* detectInterfaces over the list of interface addresses
RECURSIVE detectFrom(_, _, _)
detectFrom(f, addresses, i) ==
    IF i > Len(addresses) THEN f
    ELSE detectFrom(detectInterface(f, addresses[i]), addresses, i + 1)
detectInterfaces(addresses) ==
    detectFrom([ip6 |-> FALSE, ip4 |-> FALSE], addresses, 1)

InterfaceLists == {<<"lo">>, <<"lo", "v4">>, <<"lo", "v6">>, <<"lo", "v4", "v6">>}

\* findIP4 / findIP6: the first address of the wanted type in rrs,
\* else the last CNAME record of rrs, else nil
RECURSIVE findFrom(_, _, _, _)
findFrom(rrs, typ, i, cn) ==
    IF i > Len(rrs) THEN cn
    ELSE IF rrs[i].typ = typ THEN IPRes(rrs[i].data)
    ELSE findFrom(rrs, typ, i + 1,
                  IF rrs[i].typ = "CNAME" THEN CNameRes(rrs[i]) ELSE cn)
findIP4(rrs) == findFrom(rrs, "A", 1, Nil)
findIP6(rrs) == findFrom(rrs, "AAAA", 1, Nil)

\* makeReq: the question (name, qtype) of a request
makeReq(hostname, dnsType) == [name |-> hostname, qtype |-> dnsType]

\* calculateExpiry: the expiry of a record stored at time t
calculateExpiry(ttl, t) == t + ttl

----------------------------------------------------------------------------
(* The BaseResolver: testutils.MockResolver *)

NilResp == [nil |-> TRUE, err |-> FALSE, answer |-> <<>>]

\* MockResolver.Resolve: the one record of the host, whatever the
\* question's type; a record that does not parse yields (nil, err).
BaseResolve(z, req) ==
    IF z[req.name] = NoRR THEN [nil |-> FALSE, err |-> FALSE, answer |-> <<>>]
    ELSE IF z[req.name] = BadRR THEN [nil |-> TRUE, err |-> TRUE, answer |-> <<>>]
    ELSE [nil |-> FALSE, err |-> FALSE, answer |-> <<z[req.name]>>]

----------------------------------------------------------------------------
(* The DNS response cache (sdns middleware cache) *)

CacheKeys == Names \X {"A", "AAAA"}

NoEntry == [some |-> FALSE, answer |-> <<>>, expiry |-> 0, fam |-> 0]

\* cache.Hash of a question
Hash(q) == <<q.name, q.qtype>>

RECURSIVE minTTLFrom(_, _, _)
minTTLFrom(rrs, i, m) ==
    IF i > Len(rrs) THEN m
    ELSE minTTLFrom(rrs, i + 1, IF rrs[i].ttl < m THEN rrs[i].ttl ELSE m)
\* the lifetime of a response: the smallest TTL of its records
MsgTTL(answer) == IF Len(answer) = 0 THEN Expire ELSE minTTLFrom(answer, 1, Expire)

\* Cache.GetP: the cached response, or nil once its expiry has passed
GetP(c, key, t) ==
    IF c[key].some /\ ~(t > c[key].expiry)
    THEN [nil |-> FALSE, err |-> FALSE, answer |-> c[key].answer]
    ELSE NilResp

\* Cache.Set (fam is history: the lookup that stored the entry)
Set(c, key, resp, t, fam) ==
    [c EXCEPT ![key] = [some |-> TRUE, answer |-> resp.answer,
                        expiry |-> t + MsgTTL(resp.answer), fam |-> fam]]

----------------------------------------------------------------------------
(* The single-family lookups.  Each yields the triple it returns (res),   *)
(* the DNS cache afterwards (cache) and a history record of what it did   *)
(* (call): the family, the question's type, the time, whether an entry    *)
(* was present under the key and its expiry, whether the cache was hit,   *)
(* the family that had stored the entry hit, whether the BaseResolver was *)
(* queried and whether the response was stored.                           *)

\* the type of the question lookup6 and lookup4 ask
Lookup6QType == "A"
Lookup4QType == "A"

\* a variant that never replaces an entry present under the key
StoreRespOnce(c, key, resp, t, fam) ==
    IF ~resp.nil /\ ~c[key].some THEN Set(c, key, resp, t, fam) ELSE c
\* lookup6 / lookup4 after a cache miss: the response, if there is one,
\* is stored under the key
StoreResp(c, key, resp, t, fam) ==
    IF ~resp.nil THEN Set(c, key, resp, t, fam) ELSE c

lookupWith(c, z, t, host, qtype, fam) ==
    LET req  == makeReq(host, qtype)
        key  == Hash(req)
        hit  == GetP(c, key, t)
        miss == hit.nil
        resp == IF miss THEN BaseResolve(z, req) ELSE hit
        c1   == IF miss THEN StoreResp(c, key, resp, t, fam) ELSE c
        found == IF fam = 6 THEN findIP6(resp.answer) ELSE findIP4(resp.answer)
        res  == IF miss /\ resp.err THEN ErrRes(ErrBase)
                ELSE IF Len(resp.answer) > 0 THEN found
                ELSE Nil
    IN [res |-> res, cache |-> c1,
        call |-> [fam |-> fam, qtype |-> qtype, at |-> t,
                  had |-> c[key].some, exp |-> c[key].expiry,
                  hit |-> ~miss, hitFam |-> IF miss THEN 0 ELSE c[key].fam,
                  queried |-> miss, stored |-> (miss /\ ~resp.nil),
                  out |-> res.kind]]

\* Resolver.lookup6
lookup6(c, z, t, host) == lookupWith(c, z, t, host, Lookup6QType, 6)

\* Resolver.lookup4
lookup4(c, z, t, host) == lookupWith(c, z, t, host, Lookup4QType, 4)

\* Resolver.lookup: the families looked up, in order, given the package
\* flags and r.ip4[host]
lookupOrderSwapped(a4, a6, pref) ==
    IF a6 /\ a4 THEN (IF pref THEN <<6, 4>> ELSE <<4, 6>>)
    ELSE IF a6 THEN <<6>>
    ELSE IF a4 THEN <<4>>
    ELSE <<>>
\* a variant that looks IPv6 up when no family is available
lookupOrderBlind(a4, a6, pref) ==
    IF a6 /\ a4 THEN (IF pref THEN <<4, 6>> ELSE <<6, 4>>)
    ELSE IF a4 THEN <<4>>
    ELSE <<6>>
lookupOrder(a4, a6, pref) ==
    IF a6 /\ a4 THEN (IF pref THEN <<4, 6>> ELSE <<6, 4>>)
    ELSE IF a6 THEN <<6>>
    ELSE IF a4 THEN <<4>>
    ELSE <<>>

----------------------------------------------------------------------------
(* The local hosts source *)

\* /etc/hosts: netstd.LookupStaticHost
LookupStaticHost(host) ==
    IF normalName(host) = "a." THEN {"10.0.0.1", Addr6} ELSE {}

\* the readFiles flag computed by resolveLocal from the nsswitch.conf state
NSSConfs == {"err", "nohosts", "dns", "files"}
nssReadFiles(nss) == nss = "files"

----------------------------------------------------------------------------
(* The configuration (config package) *)

\* null.Bool and null.Int: a value and the flag Valid
NullBool == [Bool |-> FALSE, Valid |-> FALSE]
BoolFrom(b) == [Bool |-> b, Valid |-> TRUE]
NullBools == {NullBool, BoolFrom(TRUE), BoolFrom(FALSE)}

NullInt == [Int64 |-> 0, Valid |-> FALSE]
IntFrom(i) == [Int64 |-> i, Valid |-> TRUE]
NullInts == {NullInt, IntFrom(10), IntFrom(20)}

\* types.NullDuration: a duration in seconds and the flag Valid
NullDuration == [Duration |-> 0, Valid |-> FALSE]
NullDurationFrom(d) == [Duration |-> d, Valid |-> TRUE]
NullDurations ==
    {NullDuration, NullDurationFrom(0), NullDurationFrom(-1),
     NullDurationFrom(30)}

\* []lib.Stage: nil, or a list of stages (Duration, Target)
NilStages == [set |-> FALSE, list |-> <<>>]
StagesFrom(l) == [set |-> TRUE, list |-> l]
Stage(d, t) == [Duration |-> d, Target |-> t]
StageLists ==
    {NilStages, StagesFrom(<<>>),
     StagesFrom(<<Stage(NullDurationFrom(30), IntFrom(20))>>),
     StagesFrom(<<Stage(NullDuration, IntFrom(10)),
                  Stage(NullDurationFrom(30), IntFrom(20))>>),
     StagesFrom(<<Stage(NullDurationFrom(30), IntFrom(20)),
                  Stage(NullDuration, IntFrom(10)),
                  Stage(NullDurationFrom(0), NullInt)>>)}

\* scheduler.ConfigMap: nil, or a map from executor names to configs
NoConfigs == [n \in {} |-> NullInt]
NilExecution == [set |-> FALSE, map |-> NoConfigs]
ConfigMap(m) == [set |-> TRUE, map |-> m]
DefaultSchedulerName == "default"

\* the constructors of the executor configurations, with their defaults
NewPerVUIterationsConfig(name) ==
    [Name |-> name, Type |-> "per-vu-iterations",
     VUs |-> [Int64 |-> 1, Valid |-> FALSE],
     Iterations |-> [Int64 |-> 1, Valid |-> FALSE],
     MaxDuration |-> [Duration |-> 3600, Valid |-> FALSE]]
NewSharedIterationsConfig(name) ==
    [Name |-> name, Type |-> "shared-iterations",
     VUs |-> [Int64 |-> 1, Valid |-> FALSE],
     Iterations |-> [Int64 |-> 1, Valid |-> FALSE],
     MaxDuration |-> [Duration |-> 3600, Valid |-> FALSE]]
NewConstantLoopingVUsConfig(name) ==
    [Name |-> name, Type |-> "constant-looping-vus",
     VUs |-> [Int64 |-> 1, Valid |-> FALSE],
     Duration |-> NullDuration]
NewVariableLoopingVUsConfig(name) ==
    [Name |-> name, Type |-> "variable-looping-vus",
     StartVUs |-> [Int64 |-> 1, Valid |-> FALSE],
     Stages |-> <<>>]

\* the system tag sets: nil, one chosen by the user, the default one
NilTags == "nil"
TagSets == {NilTags, "custom"}
DefaultSystemTagList == "default"

\* the zero value of lib.Options and of Config
ZeroOptions ==
    [VUs |-> NullInt, SystemTags |-> NilTags, Iterations |-> NullInt,
     Duration |-> NullDuration, Stages |-> NilStages,
     Execution |-> NilExecution]
ZeroConfig ==
    [Options |-> ZeroOptions, Out |-> <<>>, Linger |-> NullBool,
     NoUsageReport |-> NullBool, NoThresholds |-> NullBool,
     NoSummary |-> NullBool]

\* lib.Options.Apply: the right-hand side overrides only if set
OptionsApply(o, opts) ==
    [VUs |-> IF opts.VUs.Valid THEN opts.VUs ELSE o.VUs,
     SystemTags |-> IF opts.SystemTags # NilTags THEN opts.SystemTags
                    ELSE o.SystemTags,
     Iterations |-> IF opts.Iterations.Valid THEN opts.Iterations
                    ELSE o.Iterations,
     Duration |-> IF opts.Duration.Valid THEN opts.Duration ELSE o.Duration,
     Stages |-> IF opts.Stages.set THEN opts.Stages ELSE o.Stages,
     Execution |-> IF opts.Execution.set THEN opts.Execution
                   ELSE o.Execution]

\* Config.Apply, and one that takes Out from the right-hand side always
ApplyClearing(c, cfg) ==
    [Options |-> OptionsApply(c.Options, cfg.Options),
     Out |-> cfg.Out,
     Linger |-> IF cfg.Linger.Valid THEN cfg.Linger ELSE c.Linger,
     NoUsageReport |-> IF cfg.NoUsageReport.Valid THEN cfg.NoUsageReport
                       ELSE c.NoUsageReport,
     NoThresholds |-> IF cfg.NoThresholds.Valid THEN cfg.NoThresholds
                      ELSE c.NoThresholds,
     NoSummary |-> IF cfg.NoSummary.Valid THEN cfg.NoSummary ELSE c.NoSummary]
Apply(c, cfg) ==
    [Options |-> OptionsApply(c.Options, cfg.Options),
     Out |-> IF Len(cfg.Out) > 0 THEN cfg.Out ELSE c.Out,
     Linger |-> IF cfg.Linger.Valid THEN cfg.Linger ELSE c.Linger,
     NoUsageReport |-> IF cfg.NoUsageReport.Valid THEN cfg.NoUsageReport
                       ELSE c.NoUsageReport,
     NoThresholds |-> IF cfg.NoThresholds.Valid THEN cfg.NoThresholds
                      ELSE c.NoThresholds,
     NoSummary |-> IF cfg.NoSummary.Valid THEN cfg.NoSummary ELSE c.NoSummary]

\* applyDefault: the default system tags, if no source set any
applyDefault(c) ==
    IF c.Options.SystemTags = NilTags
    THEN Apply(c, [ZeroConfig EXCEPT !.Options.SystemTags = DefaultSystemTagList])
    ELSE c

\* Get: folds the results of the getters left to right with Apply and then
\* applies the defaults; returns the error of the first getter that fails.
\* A getter's result is a record [conf, err], err = "" for no error.
RECURSIVE GetFrom(_, _, _)
GetFrom(c, configGets, i) ==
    IF i > Len(configGets) THEN [conf |-> applyDefault(c), err |-> ""]
    ELSE IF configGets[i].err # "" THEN [conf |-> c, err |-> configGets[i].err]
    ELSE GetFrom(Apply(c, configGets[i].conf), configGets, i + 1)
Get(configGets) == GetFrom(ZeroConfig, configGets, 1)

\* getConstantLoopingVUsExecution
getConstantLoopingVUsExecution(duration, vus) ==
    LET ds == [NewConstantLoopingVUsConfig(DefaultSchedulerName)
                  EXCEPT !.VUs = vus, !.Duration = duration]
    IN  ConfigMap([n \in {DefaultSchedulerName} |-> ds])

\* the valid stages of a list, each put before those found so far
RECURSIVE validStagesPrepended(_)
validStagesPrepended(stages) ==
    IF stages = <<>> THEN <<>>
    ELSE IF Head(stages).Duration.Valid
         THEN validStagesPrepended(Tail(stages)) \o <<Head(stages)>>
         ELSE validStagesPrepended(Tail(stages))

\* the valid stages of a list, in order
RECURSIVE validStages(_)
validStages(stages) ==
    IF stages = <<>> THEN <<>>
    ELSE IF Head(stages).Duration.Valid
         THEN <<Head(stages)>> \o validStages(Tail(stages))
         ELSE validStages(Tail(stages))

\* getVariableLoopingVUsExecution
getVariableLoopingVUsExecution(stages, startVUs) ==
    LET ds == [NewVariableLoopingVUsConfig(DefaultSchedulerName)
                  EXCEPT !.StartVUs = startVUs, !.Stages = validStages(stages)]
    IN  ConfigMap([n \in {DefaultSchedulerName} |-> ds])

\* getSharedIterationsExecution, and one that never bounds the duration
getSharedIterationsUnbounded(iterations, duration, vus) ==
    LET ds == [NewSharedIterationsConfig(DefaultSchedulerName)
                  EXCEPT !.VUs = vus, !.Iterations = iterations]
    IN  ConfigMap([n \in {DefaultSchedulerName} |-> ds])
getSharedIterationsExecution(iterations, duration, vus) ==
    LET ds == [NewSharedIterationsConfig(DefaultSchedulerName)
                  EXCEPT !.VUs = vus, !.Iterations = iterations]
    IN  ConfigMap([n \in {DefaultSchedulerName} |->
                      IF duration.Valid
                      THEN [ds EXCEPT !.MaxDuration = duration] ELSE ds])

\* the duration shortcut stands for an infinite duration; never so
NeverInfinite(c) == FALSE
IsInfinite(c) == c.Options.Duration.Duration <= 0

\* len(conf.Execution) == 0: unset or set to empty; only unset
ExecutionUnset(c) == ~c.Options.Execution.set
ExecutionEmpty(c) == DOMAIN c.Options.Execution.map = {}

\* deriveExecutionConfig: the Execution of the result
derivedExecution(c) ==
    LET o == c.Options IN
    CASE o.Iterations.Valid ->
            getSharedIterationsExecution(o.Iterations, o.Duration, o.VUs)
      [] ~o.Iterations.Valid /\ o.Duration.Valid ->
            IF IsInfinite(c) THEN o.Execution
            ELSE getConstantLoopingVUsExecution(o.Duration, o.VUs)
      [] ~o.Iterations.Valid /\ ~o.Duration.Valid /\ Len(o.Stages.list) > 0 ->
            getVariableLoopingVUsExecution(o.Stages.list, o.VUs)
      [] OTHER ->
            IF ExecutionEmpty(c)
            THEN ConfigMap([n \in {DefaultSchedulerName} |->
                               NewPerVUIterationsConfig(DefaultSchedulerName)])
            ELSE o.Execution

\* deriveExecutionConfig, and one that uses up the shortcut options
deriveConsuming(c) ==
    [conf |-> [c EXCEPT !.Options.Execution = derivedExecution(c),
                           !.Options.Iterations = NullInt,
                           !.Options.Duration = NullDuration],
     err |-> ""]
deriveExecutionConfig(c) ==
    [conf |-> [c EXCEPT !.Options.Execution = derivedExecution(c)],
     err |-> ""]

\* validateConfig: the errors conf.Validate() can report, joined
ValidateErrors == {"", "invalid"}

\* Options.Validate on one executor: its (maximum) duration is positive and
\* a ramping executor has a stage
ExecutorErrors(e) ==
    CASE e.Type \in {"per-vu-iterations", "shared-iterations"} ->
             IF e.MaxDuration.Duration <= 0
             THEN {e.Name \o ": maxDuration"} ELSE {}
      [] e.Type = "constant-looping-vus" ->
             IF e.Duration.Duration <= 0
             THEN {e.Name \o ": duration"} ELSE {}
      [] OTHER ->
             IF e.Stages = <<>> THEN {e.Name \o ": stages"} ELSE {}

\* conf.Validate(): the errors of the executors of the Execution
Validate(c) ==
    IF c.Options.Execution.set
    THEN UNION {ExecutorErrors(c.Options.Execution.map[n]) :
                   n \in DOMAIN c.Options.Execution.map}
    ELSE {}

\* validateConfig(c), its message cut down to "invalid"
validateConfigOf(c) == IF Validate(c) = {} THEN "" ELSE "invalid"

\* DeriveAndValidate, given the outcome of validateConfig(c)
DeriveAndValidate(c, verr) ==
    LET r == deriveExecutionConfig(c) IN
    IF r.err # "" THEN r ELSE [conf |-> r.conf, err |-> verr]

\* the executor maps a source can hold
Executions ==
    {NilExecution, ConfigMap(NoConfigs),
     ConfigMap([n \in {"mine"} |-> NewPerVUIterationsConfig("mine")]),
     ConfigMap([n \in {"default", "mine"} |->
                   NewConstantLoopingVUsConfig(n)])}

\* the consolidated configurations DeriveAndValidate can be given
ConsolidatedConfigs ==
    {[ZeroConfig EXCEPT !.Options =
         [VUs |-> v, SystemTags |-> DefaultSystemTagList, Iterations |-> i,
          Duration |-> d, Stages |-> s, Execution |-> e]] :
        v \in NullInts, i \in NullInts, d \in NullDurations,
        s \in StageLists, e \in Executions}

\* the configurations the sources of the archive command can hold
FileConfigs ==
    {[ZeroConfig EXCEPT !.Options.VUs = v, !.Linger = l, !.Out = o] :
        v \in NullInts, l \in NullBools, o \in {<<>>, <<"json">>}}
\* the archive command has the flags of the options only
CliConfigs ==
    {[ZeroConfig EXCEPT !.Options.VUs = v, !.Options.SystemTags = t] :
        v \in NullInts, t \in TagSets}
EnvConfigs ==
    {[ZeroConfig EXCEPT !.Options.VUs = v, !.Linger = l, !.NoSummary = n] :
        v \in NullInts, l \in NullBools, n \in {NullBool, BoolFrom(TRUE)}}
ScriptOptions == {[ZeroOptions EXCEPT !.VUs = v] : v \in NullInts}

SourceNames == {"file", "cli", "env"}

\* the order of the getters in the call of Get, and the reverse order
GetOrderReversed == <<"env", "cli", "file">>
GetOrder == <<"file", "cli", "env">>

\* the configurations the three getters handed to Get can return
GetConfigs(name) ==
    CASE name = "file" ->
            {[ZeroConfig EXCEPT !.Options.VUs = v, !.Linger = l, !.Out = o,
                                !.NoUsageReport = u] :
                v \in {NullInt, IntFrom(10)}, l \in NullBools,
                o \in {<<>>, <<"json">>}, u \in {NullBool, BoolFrom(TRUE)}}
      [] name = "cli" ->
            {[ZeroConfig EXCEPT !.Options.SystemTags = t, !.Linger = l,
                                !.Out = o, !.NoUsageReport = u,
                                !.NoThresholds = h] :
                t \in TagSets, l \in {NullBool, BoolFrom(FALSE)},
                o \in {<<>>, <<"csv">>}, u \in {NullBool, BoolFrom(FALSE)},
                h \in {NullBool, BoolFrom(TRUE)}}
      [] name = "env" ->
            {[ZeroConfig EXCEPT !.Options.VUs = v, !.Out = o,
                                !.NoThresholds = h, !.NoSummary = n] :
                v \in {NullInt, IntFrom(20)}, o \in {<<>>, <<"json">>},
                h \in {NullBool, BoolFrom(FALSE)}, n \in NullBools}

\* FromFile, configFromCli, FromEnv: the source's Config, or an error
Getter(name) ==
    IF name \in fails THEN [conf |-> ZeroConfig, err |-> name]
    ELSE [conf |-> sources[name], err |-> ""]
FromFile == Getter("file")
configFromCli == Getter("cli")
FromEnv == Getter("env")

\* a Go error: nil, or errors.New of a text (a sequence of pieces of text)
NilError == [nil |-> TRUE, msg |-> <<>>]
ErrorsNew(text) == [nil |-> FALSE, msg |-> text]

\* validateConfig was not called
ValidateNotRun ==
    /\ errList = <<>>
    /\ valErr = NilError
    /\ valst = "none"

\* DialContext's result: a connection to an address, or an error
NoConn == ""
NoDial == [addr |-> [host |-> "", port |-> ""], conn |-> NoConn, err |-> "",
           asked |-> <<>>]

\* no dialer was made
DialerNotUsed ==
    /\ Hosts = <<>>
    /\ Blacklist = {}
    /\ Metacache = <<>>
    /\ dnsr = <<>>
    /\ attempts = <<>>
    /\ dcall = NoDial

\* no progress bar was made
BarNotUsed ==
    /\ pb = <<>>
    /\ mutex = [w |-> FALSE, r |-> 0]
    /\ modp = <<>>
    /\ rdp = <<>>
    /\ snaps = <<>>

\* no ExecutionState was made
PoolNotUsed ==
    /\ maxPossibleVUs = 0
    /\ number = 0
    /\ serial = 0
    /\ newVUs = {}
    /\ initializedVUs = <<>>
    /\ activeSet = {}
    /\ fullIterationCount = 0
    /\ interruptedIterationCount = 0

\* no connection of the dialer has moved a byte
BytesNotUsed ==
    /\ BytesRead = 0
    /\ BytesWritten = 0
    /\ cio = <<>>
    /\ gtp = <<>>
    /\ trails = <<>>
    /\ readTotal = 0
    /\ writtenTotal = 0

\* no source of the configuration is read
InputsNotUsed ==
    /\ fsys = <<>>
    /\ cfgpath = ""
    /\ environ = <<>>
    /\ rd = [st |-> "none"]

MoreNotUsed == BytesNotUsed /\ InputsNotUsed

\* the rest of the command is not running
CommandNotRun ==
    /\ ValidateNotRun
    /\ DialerNotUsed
    /\ BarNotUsed
    /\ PoolNotUsed
    /\ MoreNotUsed

\* no executor is running
ExecutorNotRun ==
    /\ CommandNotRun
    /\ excfg = [Type |-> "none"]
    /\ exst = "none"
    /\ vu = <<>>
    /\ attempted = 0
    /\ claims = <<>>
    /\ doneIters = 0
    /\ expired = FALSE
    /\ clk = 0
    /\ cur = 0
    /\ activeVUs = 0
    /\ result = <<>>

\* the archive command is not running
ArchiveNotRun ==
    /\ sources = [n \in SourceNames |-> ZeroConfig]
    /\ fails = {}
    /\ script = ZeroOptions
    /\ conf = ZeroConfig
    /\ cerr = ""
    /\ stage = "none"
    /\ applied = ZeroConfig
    /\ ExecutorNotRun

----------------------------------------------------------------------------
(* The state of one caller *)

NoCName == [some |-> FALSE, name |-> "", ttl |-> 0, expiry |-> 0]

\* pc is the caller's position; host, depth, name, requested, d, observed
\* and nowL are the arguments and locals of Resolve, canonicalName and
\* resolveName; res is what lookup returned and ret what Resolve returned.
\* History: asked (the normal form of the host asked for), atStart (the
\* CNAME cache as the call found it), pref (r.ip4[host] as lookup read
\* it), calls (the single-family lookups of the current lookup), retBy (the
\* function that produced ret), hopsC and hopsF (the CNAME hops followed
\* through the CNAME cache and through lookups), qctx (the context handed
\* to the BaseResolver by the last query of the current lookup, 0 if it
\* made none).
IdleProc ==
    [pc |-> "idle", host |-> "", depth |-> 0, name |-> "", requested |-> "",
     d |-> 0, observed |-> {}, nowL |-> 0, pref |-> FALSE, calls |-> <<>>,
     res |-> Nil, ret |-> Nil, hopsC |-> 0, hopsF |-> 0,
     asked |-> "", atStart |-> <<>>, retBy |-> "", qctx |-> 0]

\* depth-- and depth-1 on a uint8
Dec8(x) == (x + 255) % 256

\* the caller's Resolve returns r, produced by function f
Done(q, r, f) == [q EXCEPT !.pc = "done", !.ret = r, !.retBy = f]

\* canonicalName's test of an entry read at its time t
ExpiredNever(t, entry) == FALSE
Expired(t, entry) == t > entry.expiry

\* history: the state of each CNAME cache entry at time t
CNameStates(cn, t) ==
    [n \in Names |-> IF ~cn[n].some THEN "none"
                     ELSE IF Expired(t, cn[n]) THEN "expired"
                     ELSE "live"]

InitResolver ==
    /\ \E addresses \in InterfaceLists :
          /\ ip4avail = detectInterfaces(addresses).ip4
          /\ ip6avail = detectInterfaces(addresses).ip6
    /\ \E nss \in NSSConfs : readFiles = nssReadFiles(nss)
    /\ zone \in Zones
    /\ now = 0
    /\ cache = [k \in CacheKeys |-> NoEntry]
    /\ ip4 = [n \in Names |-> FALSE]
    /\ cname = [n \in Names |-> NoCName]
    /\ rctx = 0
    /\ proc = [p \in Callers |-> IdleProc]
    /\ nset = 0
    /\ looked = {}
    /\ ArchiveNotRun

\* the callers resolve any host with any depth
Init ==
    /\ InitResolver
    /\ asks = HostInputs \X Depths
    /\ sets = Changes

\* Resolve, up to the call of canonicalName: records the context, returns
\* an IP literal verbatim, then an address of the local hosts source.
\* resolveLocal: the addresses one of which it returns, none for nil; one
\* that reads the hosts file whatever nsswitch.conf says
resolveLocalAlways(host) == LookupStaticHost(host)
resolveLocal(host) == IF readFiles THEN LookupStaticHost(host) ELSE {}

ResolveStart(p) ==
    /\ proc[p].pc = "idle"
    /\ \E ask \in asks :
         LET host == ask[1]
             depth == ask[2]
             q == [IdleProc EXCEPT !.host = host, !.depth = depth,
                                   !.asked = normalName(host),
                                   !.atStart = CNameStates(cname, now)] IN
         /\ rctx' = p
         /\ IF ParseIP(host) # ""
            THEN proc' = [proc EXCEPT ![p] = Done(q, IPRes(ParseIP(host)), "ParseIP")]
            ELSE IF resolveLocal(host) # {}
            THEN \E ip \in resolveLocal(host) :
                    proc' = [proc EXCEPT ![p] = Done(q, IPRes(ip), "resolveLocal")]
            ELSE proc' = [proc EXCEPT ![p] =
                            [q EXCEPT !.pc = "canon", !.name = normalName(host),
                                      !.observed = {normalName(host)},
                                      !.nowL = now, !.d = depth]]
    /\ UNCHANGED <<cfgVars, exVars, cmdVars, ip4avail, ip6avail, readFiles, zone, now,
                   cache, ip4, cname, asks, sets, nset, looked>>

\* the call of resolveName(host, host, depth, observed) that ends Resolve;
\* one that allows one more hop
EnterResolveNameDeeper(q) ==
    [q EXCEPT !.pc = "lookup", !.host = q.name, !.requested = q.name,
              !.d = q.depth + 1, !.observed = {}]
EnterResolveName(q) ==
    [q EXCEPT !.pc = "lookup", !.host = q.name, !.requested = q.name,
              !.d = q.depth, !.observed = {}]

\* One iteration of canonicalName's loop: reads r.cname[cname].
CanonicalNameStep(p) ==
    LET q == proc[p]
        entry == cname[q.name]
    IN
    /\ q.pc = "canon"
    /\ proc' = [proc EXCEPT ![p] =
          IF ~entry.some THEN EnterResolveName(q)
          ELSE IF Expired(q.nowL, entry) THEN [q EXCEPT !.pc = "purge"]
          ELSE IF q.d = 0 THEN Done(q, ErrRes(ErrTooLong), "canonicalName")
          ELSE IF entry.name \in q.observed
          THEN Done(q, ErrRes(ErrCycle), "canonicalName")
          ELSE [q EXCEPT !.name = entry.name,
                         !.observed = q.observed \cup {entry.name},
                         !.d = Dec8(q.d), !.hopsC = q.hopsC + 1]]
    /\ UNCHANGED <<cfgVars, exVars, cmdVars, ip4avail, ip6avail, readFiles, zone, now,
                   cache, ip4, cname, rctx, asks, sets, nset, looked>>

\* canonicalName on an expired entry: deletes it and returns the name
\* reached so far.
CanonicalNamePurge(p) ==
    LET q == proc[p] IN
    /\ q.pc = "purge"
    /\ cname' = [cname EXCEPT ![q.name] = NoCName]
    /\ proc' = [proc EXCEPT ![p] = EnterResolveName(q)]
    /\ UNCHANGED <<cfgVars, exVars, cmdVars, ip4avail, ip6avail, readFiles, zone, now,
                   cache, ip4, rctx, asks, sets, nset, looked>>

\* Resolver.lookup up to the end of its first single-family lookup: reads
\* r.ip4[host] to order the families, then looks the first one up.
Lookup(p) ==
    LET q     == proc[p]
        both  == ip6avail /\ ip4avail
        pref  == both /\ ip4[q.name]
        order == lookupOrder(ip4avail, ip6avail, pref)
        l     == IF order[1] = 4
                 THEN lookup4(cache, zone, now, q.name)
                 ELSE lookup6(cache, zone, now, q.name)
    IN
    /\ q.pc = "lookup"
    /\ looked' = looked \cup {q.name}
    /\ IF order = <<>>
       THEN /\ proc' = [proc EXCEPT ![p] =
                  [q EXCEPT !.pc = "resolved", !.res = ErrRes(ErrNoNet),
                            !.pref = FALSE, !.calls = <<>>, !.qctx = 0]]
            /\ cache' = cache
       ELSE /\ cache' = l.cache
            /\ proc' = [proc EXCEPT ![p] =
                  [q EXCEPT !.pref = pref, !.calls = <<l.call>>,
                     !.qctx = IF l.call.queried THEN rctx ELSE 0,
                     !.res = IF l.res.kind # "nil" THEN l.res
                             ELSE IF Len(order) = 1 THEN ErrRes(ErrUnable)
                             ELSE Nil,
                     !.pc = IF l.res.kind # "nil" \/ Len(order) = 1 THEN "resolved"
                            ELSE IF order[2] = 6 THEN "second46"
                            ELSE "second64"]]
    /\ UNCHANGED <<cfgVars, exVars, cmdVars, ip4avail, ip6avail, readFiles, zone, now,
                   ip4, cname, rctx, asks, sets, nset>>

\* lookup46 after IPv4 missed: clears r.ip4[host], then looks IPv6 up.
Lookup46Second(p) ==
    LET q == proc[p]
        l == lookup6(cache, zone, now, q.name)
    IN
    /\ q.pc = "second46"
    /\ ip4' = [ip4 EXCEPT ![q.name] = FALSE]
    /\ cache' = l.cache
    /\ proc' = [proc EXCEPT ![p] =
          [q EXCEPT !.pc = "resolved", !.calls = Append(q.calls, l.call),
                    !.qctx = IF l.call.queried THEN rctx ELSE @,
                    !.res = IF l.res.kind # "nil" THEN l.res ELSE ErrRes(ErrUnable)]]
    /\ UNCHANGED <<cfgVars, exVars, cmdVars, ip4avail, ip6avail, readFiles, zone, now,
                   cname, rctx, asks, sets, nset, looked>>

\* lookup64 after IPv6 missed: looks IPv4 up.
Lookup64Second(p) ==
    LET q == proc[p]
        l == lookup4(cache, zone, now, q.name)
    IN
    /\ q.pc = "second64"
    /\ cache' = l.cache
    /\ proc' = [proc EXCEPT ![p] =
          [q EXCEPT !.pc = IF l.res.kind = "ip" THEN "mark4" ELSE "resolved",
                    !.calls = Append(q.calls, l.call),
                    !.qctx = IF l.call.queried THEN rctx ELSE @,
                    !.res = IF l.res.kind # "nil" THEN l.res ELSE ErrRes(ErrUnable)]]
    /\ UNCHANGED <<cfgVars, exVars, cmdVars, ip4avail, ip6avail, readFiles, zone, now,
                   ip4, cname, rctx, asks, sets, nset, looked>>

\* the value lookup64 stores in r.ip4[host] when IPv4 answered
Lookup64MarkFalse == FALSE
Lookup64Mark == TRUE

\* lookup64 when IPv4 answered with an address: sets r.ip4[host].
Lookup64Found(p) ==
    LET q == proc[p] IN
    /\ q.pc = "mark4"
    /\ ip4' = [ip4 EXCEPT ![q.name] = Lookup64Mark]
    /\ proc' = [proc EXCEPT ![p] = [q EXCEPT !.pc = "resolved"]]
    /\ UNCHANGED <<cfgVars, exVars, cmdVars, ip4avail, ip6avail, readFiles, zone, now,
                   cache, cname, rctx, asks, sets, nset, looked>>

\* TRUE iff resolveName, holding the result of lookup, goes on to store
\* the CNAME link and to recurse
FollowsCNameUnobserved(q) ==
    /\ q.res.kind = "cname"
    /\ q.d # 0
FollowsCNameAtDepthZero(q) ==
    /\ q.res.kind = "cname"
    /\ q.res.val \notin q.observed
FollowsCName(q) ==
    /\ q.res.kind = "cname"
    /\ q.d # 0
    /\ q.res.val \notin q.observed

\* resolveName after lookup returned: returns the error or the address,
\* or stores the CNAME link in r.cname and recurses with depth-1.
ResolveName(p) ==
    LET q == proc[p] IN
    /\ q.pc = "resolved"
    /\ IF FollowsCName(q)
       THEN /\ cname' = [cname EXCEPT ![q.name] =
                    [some |-> TRUE, name |-> q.res.val, ttl |-> q.res.ttl,
                     expiry |-> calculateExpiry(q.res.ttl, now)]]
            /\ proc' = [proc EXCEPT ![p] =
                    [q EXCEPT !.pc = "lookup", !.name = q.res.val,
                              !.observed = q.observed \cup {q.res.val},
                              !.d = Dec8(q.d), !.hopsF = q.hopsF + 1,
                              !.res = Nil, !.calls = <<>>, !.pref = FALSE]]
       ELSE /\ cname' = cname
            /\ proc' = [proc EXCEPT ![p] =
                    CASE q.res.kind = "err" -> Done(q, q.res, "lookup")
                      [] q.res.kind = "ip"  -> Done(q, q.res, "lookup")
                      [] q.res.kind = "nil" -> Done(q, ErrRes(ErrUnable), "resolveName")
                      [] q.d = 0            -> Done(q, ErrRes(ErrTooLong), "resolveName")
                      [] OTHER              -> Done(q, ErrRes(ErrCycle), "resolveName")]
    /\ UNCHANGED <<cfgVars, exVars, cmdVars, ip4avail, ip6avail, readFiles, zone, now,
                   cache, ip4, rctx, asks, sets, nset, looked>>

\* the caller takes the result; it may call again
Return(p) ==
    /\ proc[p].pc = "done"
    /\ proc' = [proc EXCEPT ![p] = IdleProc]
    /\ UNCHANGED <<cfgVars, exVars, cmdVars, ip4avail, ip6avail, readFiles, zone, now,
                   cache, ip4, cname, rctx, asks, sets, nset, looked>>

\* time passes
Tick ==
    /\ now < MaxTime
    /\ now' = now + 1
    /\ UNCHANGED <<cfgVars, exVars, cmdVars, ip4avail, ip6avail, readFiles, zone, cache, ip4, cname, rctx, proc, asks, sets, nset, looked>>

\* MockResolver.SetRR: the record of a host changes
SetRR ==
    /\ nset < MaxSetRR
    /\ nset' = nset + 1
    /\ \E s \in sets :
          /\ zone[s[1]] # s[2]
          /\ zone' = [zone EXCEPT ![s[1]] = s[2]]
    /\ UNCHANGED <<cfgVars, exVars, cmdVars, ip4avail, ip6avail, readFiles, now, cache, ip4, cname, rctx,
                   proc, asks, sets, looked>>

Step(p) ==
    \/ ResolveStart(p)
    \/ CanonicalNameStep(p)
    \/ CanonicalNamePurge(p)
    \/ Lookup(p)
    \/ Lookup46Second(p)
    \/ Lookup64Second(p)
    \/ Lookup64Found(p)
    \/ ResolveName(p)
    \/ Return(p)

\* one caller at a time; the clock and the zone move while the caller is
\* idle or in its call, not in the instant it holds the result
Next ==
    \/ Step(1)
    \/ proc[1].pc # "done" /\ Tick
    \/ proc[1].pc # "done" /\ SetRR

Spec == Init /\ [][Next]_vars

\* Concurrent callers on one Resolver: two goroutines resolve an alias in
\* a zone whose other names have IPv4 addresses, on a machine with both IP
\* families and no local hosts source; the last name may move to IPv6.
InitConc ==
    /\ InitResolver
    /\ asks = {"a."} \X (1..2)
    /\ sets = {s \in Changes : s[1] = "c."}
    /\ ip4avail /\ ip6avail /\ ~readFiles
    /\ zone["c."].typ = "A"
    /\ zone["b."].typ = "A"
    /\ zone["a."].typ = "CNAME"

NextConc == Step(1) \/ Step(2) \/ Tick \/ SetRR

SpecConc == InitConc /\ [][NextConc]_vars

\* Consecutive calls on one Resolver: the first caller makes its calls one
\* after the other; the second caller calls Resolve after a call of the
\* first has returned, and the first waits until the second has taken its
\* result.
\* One caller, and a zone in which the record of the first name can be
\* replaced by one that does not parse or by an IPv6 address.
InitFail ==
    /\ InitResolver
    /\ asks = {"a."} \X {1, 2}
    /\ sets = {"a."} \X ({BadRR} \cup {rr \in RRs : rr.typ = "AAAA"})

SpecFail == InitFail /\ [][Next]_vars

InitSeq ==
    /\ InitResolver
    /\ asks = {"a."} \X {2}
    /\ sets = Changes

NextSeq ==
    \/ proc[2].pc = "idle" /\ Step(1)
    \/ proc[1].pc = "done" /\ Step(2)
    \/ Tick
    \/ SetRR

SpecSeq == InitSeq /\ [][NextSeq]_vars

\* One caller resolves a name with any depth on a machine with both IP
\* families and no local hosts source, whatever the zone holds, CNAME cycles
\* included, and whatever the CNAME cache holds: any link at any name, live
\* or (at the name asked for) expired.  The last name has a record and
\* links, if at all, back to the first name or to itself; the first name
\* may be marked as one that had an IPv4 address.
CNameEntries(expiries) ==
    {NoCName} \cup [some : {TRUE}, name : Names, ttl : {ZoneTTL},
                    expiry : expiries]

InitTerm ==
    /\ ip4avail = TRUE
    /\ ip6avail = TRUE
    /\ readFiles = FALSE
    /\ zone \in [Names -> {NoRR} \cup {rr \in RRs : rr.typ # "AAAA"}]
    /\ zone["c."] # NoRR /\ zone["c."].data # "b."
    /\ now = 1
    /\ cache = [k \in CacheKeys |-> NoEntry]
    /\ ip4 \in [Names -> BOOLEAN]
    /\ \A n \in Names \ {"a."} : ip4[n] = FALSE
    /\ cname \in [Names -> CNameEntries({0, Expire})]
    /\ \A n \in Names \ {"a."} : cname[n].some => cname[n].expiry = Expire
    /\ cname["c."].name # "b."
    /\ rctx = 0
    /\ proc = [p \in Callers |-> IdleProc]
    /\ nset = 0
    /\ looked = {}
    /\ ArchiveNotRun
    /\ asks = {"a."} \X Depths
    /\ sets = {}

\* one call of Resolve, up to its return
NextTerm ==
    \/ ResolveStart(1)
    \/ CanonicalNameStep(1)
    \/ CanonicalNamePurge(1)
    \/ Lookup(1)
    \/ Lookup46Second(1)
    \/ Lookup64Second(1)
    \/ Lookup64Found(1)
    \/ ResolveName(1)

SpecTerm == InitTerm /\ [][NextTerm]_vars

\* the goroutine that called Resolve keeps running
FairTerm == SpecTerm /\ WF_vars(NextTerm)

----------------------------------------------------------------------------
(* The archive command (cmd package) *)

\* the resolver is not in use
ResolverNotUsed ==
    /\ ip4avail = FALSE
    /\ ip6avail = FALSE
    /\ readFiles = FALSE
    /\ zone = [n \in Names |-> NoRR]
    /\ now = 0
    /\ cache = [k \in CacheKeys |-> NoEntry]
    /\ ip4 = [n \in Names |-> FALSE]
    /\ cname = [n \in Names |-> NoCName]
    /\ rctx = 0
    /\ proc = [p \in Callers |-> IdleProc]
    /\ asks = {}
    /\ sets = {}
    /\ nset = 0
    /\ looked = {}

\* the archive command starts with any file, flags, environment and script
InitConfig ==
    /\ ResolverNotUsed
    /\ ExecutorNotRun
    /\ sources \in [SourceNames -> FileConfigs \cup CliConfigs \cup EnvConfigs]
    /\ sources["file"] \in FileConfigs
    /\ sources["cli"] \in CliConfigs
    /\ sources["env"] \in EnvConfigs
    /\ fails \in SUBSET SourceNames
    /\ script \in ScriptOptions
    /\ conf = ZeroConfig
    /\ cerr = ""
    /\ stage = "start"
    /\ applied = ZeroConfig

\* archiveCmd.RunE: conf, err := config.Get(FromFile, configFromCli, FromEnv)
ArchiveGet ==
    LET got == Get(<<FromFile, configFromCli, FromEnv>>) IN
    /\ stage = "start"
    /\ conf' = got.conf
    /\ cerr' = got.err
    /\ stage' = IF got.err # "" THEN "failed" ELSE "got"
    /\ UNCHANGED <<resVars, exVars, cmdVars, sources, fails, script, applied>>

\* archiveCmd.RunE: conf = conf.Apply(config.Config{Options: r.GetOptions()})
ArchiveApplyScript ==
    /\ stage = "got"
    /\ conf' = Apply(conf, [ZeroConfig EXCEPT !.Options = script])
    /\ stage' = "applied"
    /\ UNCHANGED <<resVars, exVars, cmdVars, sources, fails, script, cerr, applied>>

NextConfig == ArchiveGet \/ ArchiveApplyScript

SpecConfig == InitConfig /\ [][NextConfig]_vars

\* Get is called with three getters; stage names the getter to call next
InitGet ==
    /\ ResolverNotUsed
    /\ ExecutorNotRun
    /\ sources \in [SourceNames -> UNION {GetConfigs(n) : n \in SourceNames}]
    /\ \A n \in SourceNames : sources[n] \in GetConfigs(n)
    /\ fails \in SUBSET SourceNames
    /\ script = ZeroOptions
    /\ conf = ZeroConfig
    /\ cerr = ""
    /\ stage = GetOrder[1]
    /\ applied = ZeroConfig

\* one iteration of a loop that notes the first error and goes on
GetIterationCollecting ==
    /\ \E i \in 1..Len(GetOrder) :
          /\ stage = GetOrder[i]
          /\ LET c == Getter(GetOrder[i]) IN
             /\ conf' = IF c.err # "" THEN conf ELSE Apply(conf, c.conf)
             /\ cerr' = IF c.err # "" /\ cerr = "" THEN c.err ELSE cerr
             /\ stage' = IF i < Len(GetOrder) THEN GetOrder[i + 1]
                         ELSE "default"
    /\ UNCHANGED <<resVars, exVars, cmdVars, sources, fails, script, applied>>

\* Get: one iteration of the loop over configGets
GetIteration ==
    /\ \E i \in 1..Len(GetOrder) :
          /\ stage = GetOrder[i]
          /\ LET c == Getter(GetOrder[i]) IN
             IF c.err # ""
             THEN /\ cerr' = c.err
                  /\ stage' = "failed"
                  /\ conf' = conf
             ELSE /\ conf' = Apply(conf, c.conf)
                  /\ stage' = IF i < Len(GetOrder) THEN GetOrder[i + 1]
                              ELSE "default"
                  /\ cerr' = cerr
    /\ UNCHANGED <<resVars, exVars, cmdVars, sources, fails, script, applied>>

\* Get: conf = applyDefault(conf); return conf, nil
GetDefault ==
    /\ stage = "default"
    /\ conf' = applyDefault(conf)
    /\ stage' = "got"
    /\ UNCHANGED <<resVars, exVars, cmdVars, sources, fails, script, cerr, applied>>

NextGet == GetIteration \/ GetDefault

SpecGet == InitGet /\ [][NextGet]_vars

\* the archive command has consolidated any configuration
InitDerive ==
    /\ ResolverNotUsed
    /\ ExecutorNotRun
    /\ sources = [n \in SourceNames |-> ZeroConfig]
    /\ fails = {}
    /\ script = ZeroOptions
    /\ conf \in ConsolidatedConfigs
    /\ cerr = ""
    /\ stage = "applied"
    /\ applied = ZeroConfig

\* archiveCmd.RunE: conf, cerr := config.DeriveAndValidate(conf)
ArchiveDerive ==
    /\ stage = "applied"
    /\ \E verr \in ValidateErrors :
          LET r == DeriveAndValidate(conf, verr) IN
          /\ verr = validateConfigOf(conf)
          /\ conf' = r.conf
          /\ cerr' = r.err
          /\ stage' = IF r.err # "" THEN "invalid" ELSE "derived"
    /\ applied' = conf
    /\ UNCHANGED <<resVars, exVars, cmdVars, sources, fails, script>>

NextDerive == ArchiveDerive

SpecDerive == InitDerive /\ [][NextDerive]_vars

----------------------------------------------------------------------------
(* The shared-iterations executor, run as in TestSharedIterationsRun *)

\* the configurations of the test, with smaller numbers
SharedIterationsConfigs ==
    {[Type |-> "shared-iterations", VUs |-> n, Iterations |-> i] :
        n \in 1..MaxVUs, i \in 1..MaxIterations}

\* a VU: about to load the counter, to swap it, to run an iteration, done
NewVU == [pc |-> "load", seen |-> 0, iter |-> 0]

\* the resolver and the archive command are not in use
OnlyExecutor ==
    /\ ResolverNotUsed
    /\ CommandNotRun
    /\ sources = [n \in SourceNames |-> ZeroConfig]
    /\ fails = {}
    /\ script = ZeroOptions
    /\ conf = ZeroConfig
    /\ cerr = ""
    /\ stage = "none"
    /\ applied = ZeroConfig

\* setupExecutor and the call of executor.Run
InitShared ==
    /\ OnlyExecutor
    /\ excfg \in SharedIterationsConfigs
    /\ exst = "running"
    /\ vu = [v \in 1..excfg.VUs |-> NewVU]
    /\ attempted = 0
    /\ claims = [n \in 1..excfg.Iterations |-> 0]
    /\ doneIters = 0
    /\ expired = FALSE
    /\ clk = 0
    /\ cur = 0
    /\ activeVUs = 0
    /\ result = <<>>

\* the compare-and-swap of the counter succeeds; one that always succeeds
SwapAlways(seen) == TRUE
SwapSucceeds(seen) == attempted = seen

\* a VU reads the counter, and stops if all iterations are dispatched or
\* maxDuration has expired
SharedLoad(v) ==
    /\ exst = "running"
    /\ vu[v].pc = "load"
    /\ vu' = [vu EXCEPT ![v] =
                 IF expired \/ attempted >= excfg.Iterations
                 THEN [@ EXCEPT !.pc = "done"]
                 ELSE [@ EXCEPT !.pc = "swap", !.seen = attempted]]
    /\ UNCHANGED <<resVars, cfgVars, cmdVars, excfg, exst, attempted, claims,
                   doneIters, expired, clk, cur, activeVUs, result>>

\* a VU claims the next iteration number by compare-and-swap
SharedClaim(v) ==
    /\ exst = "running"
    /\ vu[v].pc = "swap"
    /\ IF SwapSucceeds(vu[v].seen)
       THEN /\ attempted' = vu[v].seen + 1
            /\ claims' = [claims EXCEPT ![vu[v].seen + 1] = @ + 1]
            /\ vu' = [vu EXCEPT ![v] = [@ EXCEPT !.pc = "run",
                                                 !.iter = vu[v].seen + 1]]
       ELSE /\ vu' = [vu EXCEPT ![v] = [@ EXCEPT !.pc = "load"]]
            /\ UNCHANGED <<attempted, claims>>
    /\ UNCHANGED <<resVars, cfgVars, cmdVars, excfg, exst, doneIters, expired, clk,
                   cur, activeVUs, result>>

\* a VU runs its iteration: the runner function of the test
SharedRunIteration(v) ==
    /\ exst = "running"
    /\ vu[v].pc = "run"
    /\ doneIters' = doneIters + 1
    /\ vu' = [vu EXCEPT ![v] = [@ EXCEPT !.pc = "load"]]
    /\ UNCHANGED <<resVars, cfgVars, cmdVars, excfg, exst, attempted, claims, expired,
                   clk, cur, activeVUs, result>>

\* maxDuration expires
MaxDurationExpires ==
    /\ exst = "running"
    /\ ~expired
    /\ expired' = TRUE
    /\ UNCHANGED <<resVars, cfgVars, cmdVars, excfg, exst, vu, attempted, claims,
                   doneIters, clk, cur, activeVUs, result>>

\* Run returns nil once all VUs have stopped
SharedReturn ==
    /\ exst = "running"
    /\ \A v \in DOMAIN vu : vu[v].pc = "done"
    /\ exst' = "returned"
    /\ UNCHANGED <<resVars, cfgVars, cmdVars, excfg, vu, attempted, claims, doneIters,
                   expired, clk, cur, activeVUs, result>>

NextShared ==
    \/ \E v \in DOMAIN vu :
          SharedLoad(v) \/ SharedClaim(v) \/ SharedRunIteration(v)
    \/ MaxDurationExpires
    \/ SharedReturn

SpecShared == InitShared /\ [][NextShared]_vars

----------------------------------------------------------------------------
(* The ramping-VUs executor, run as in TestVariableLoopingVUsRun *)

\* getTestVariableLoopingVUsConfig, with durations in units of 100ms; the
\* graceful stop and the graceful ramp-down are zero
RampStage(d, t) == [Duration |-> d, Target |-> t]
TestVariableLoopingVUsConfig ==
    [Type |-> "variable-looping-vus", StartVUs |-> 5,
     Stages |-> <<RampStage(10, 5), RampStage(0, 3), RampStage(10, 3)>>]

\* the configurations the executor is run with: the test's and others
VariableLoopingVUsConfigs ==
    {[Type |-> "variable-looping-vus", StartVUs |-> n, Stages |-> st] :
        n \in {0, 2, 5},
        st \in {TestVariableLoopingVUsConfig.Stages,
                <<RampStage(10, 0)>>,
                <<RampStage(0, 2), RampStage(10, 5)>>,
                <<RampStage(4, 1), RampStage(0, 5)>>,
                <<RampStage(3, 4), RampStage(5, 1), RampStage(0, 0)>>}}

\* the times at which the test samples the number of active VUs
SampleTimes == <<1, 11, 21>>

\* the time at which a stage begins and ends
RECURSIVE StageStart(_)
StageStart(k) ==
    IF k = 1 THEN 0 ELSE StageStart(k - 1) + excfg.Stages[k - 1].Duration
StageEnd(k) == StageStart(k) + excfg.Stages[k].Duration

\* the number of VUs a stage starts from
StageFrom(k) == IF k = 1 THEN excfg.StartVUs ELSE excfg.Stages[k - 1].Target

\* n / d rounded to the nearest integer, halves to the even one
RoundHalfEven(n, d) ==
    LET q == n \div d
        r == n % d
    IN  IF 2 * r < d THEN q
        ELSE IF 2 * r > d THEN q + 1
        ELSE IF q % 2 = 0 THEN q ELSE q + 1

\* the number of VUs planned at time t of stage k: the transitions of the
\* stage are spread evenly over its duration, and made at once if that is
\* zero; one that makes those of a stage of no duration never
plannedVUsLater(k, t) ==
    LET st == excfg.Stages[k]
        diff == IF st.Target >= StageFrom(k) THEN st.Target - StageFrom(k)
                ELSE StageFrom(k) - st.Target
        moved == IF st.Duration = 0 THEN 0
                 ELSE RoundHalfEven((t - StageStart(k)) * diff, st.Duration)
    IN  IF st.Target >= StageFrom(k) THEN StageFrom(k) + moved
        ELSE StageFrom(k) - moved
plannedVUs(k, t) ==
    LET st == excfg.Stages[k]
        diff == IF st.Target >= StageFrom(k) THEN st.Target - StageFrom(k)
                ELSE StageFrom(k) - st.Target
        moved == IF st.Duration = 0 THEN diff
                 ELSE RoundHalfEven((t - StageStart(k)) * diff, st.Duration)
    IN  IF st.Target >= StageFrom(k) THEN StageFrom(k) + moved
        ELSE StageFrom(k) - moved

\* setupExecutor and the call of executor.Run
InitRamp ==
    /\ OnlyExecutor
    /\ excfg \in VariableLoopingVUsConfigs
    /\ exst = "running"
    /\ vu = <<>>
    /\ attempted = 0
    /\ claims = <<>>
    /\ doneIters = 0
    /\ expired = FALSE
    /\ clk = 0
    /\ cur = 0
    /\ activeVUs = 0
    /\ result = <<>>

\* the test's sampler is due to sample now
SampleDue ==
    /\ Len(result) < Len(SampleTimes)
    /\ clk = SampleTimes[Len(result) + 1]

\* Run activates the start VUs and enters the first stage
RampStart ==
    /\ exst = "running"
    /\ cur = 0
    /\ cur' = 1
    /\ activeVUs' = plannedVUs(1, clk)
    /\ UNCHANGED <<resVars, cfgVars, cmdVars, excfg, exst, vu, attempted, claims,
                   doneIters, expired, clk, result>>

\* 100ms pass within a stage and the executor follows the ramp
RampTick ==
    /\ exst = "running"
    /\ cur >= 1
    /\ clk < StageEnd(cur)
    /\ ~SampleDue
    /\ clk' = clk + 1
    /\ activeVUs' = plannedVUs(cur, clk + 1)
    /\ UNCHANGED <<resVars, cfgVars, cmdVars, excfg, exst, vu, attempted, claims,
                   doneIters, expired, cur, result>>

\* the current stage has ended and the next one begins
RampNextStage ==
    /\ exst = "running"
    /\ cur >= 1
    /\ cur < Len(excfg.Stages)
    /\ clk = StageEnd(cur)
    /\ cur' = cur + 1
    /\ activeVUs' = plannedVUs(cur + 1, clk)
    /\ UNCHANGED <<resVars, cfgVars, cmdVars, excfg, exst, vu, attempted, claims,
                   doneIters, expired, clk, result>>

\* the last stage has ended: the VUs are released and Run returns nil
RampReturn ==
    /\ exst = "running"
    /\ cur = Len(excfg.Stages)
    /\ clk = StageEnd(cur)
    /\ exst' = "returned"
    /\ activeVUs' = 0
    /\ UNCHANGED <<resVars, cfgVars, cmdVars, excfg, vu, attempted, claims, doneIters,
                   expired, clk, cur, result>>

\* 100ms pass after Run has returned, while the sampler is still at work
ClockTick ==
    /\ exst = "returned"
    /\ Len(result) < Len(SampleTimes)
    /\ ~SampleDue
    /\ clk' = clk + 1
    /\ UNCHANGED <<resVars, cfgVars, cmdVars, excfg, exst, vu, attempted, claims,
                   doneIters, expired, cur, activeVUs, result>>

\* the sampler: addResult(es.GetCurrentlyActiveVUsCount())
Sample ==
    /\ SampleDue
    /\ result' = Append(result, activeVUs)
    /\ UNCHANGED <<resVars, cfgVars, cmdVars, excfg, exst, vu, attempted, claims,
                   doneIters, expired, clk, cur, activeVUs>>

NextRamp ==
    \/ RampStart
    \/ RampTick
    \/ RampNextStage
    \/ RampReturn
    \/ ClockTick
    \/ Sample

SpecRamp == InitRamp /\ [][NextRamp]_vars

----------------------------------------------------------------------------
\* the resolver, the archive command and the executors are not in use
OnlyCommand ==
    /\ ResolverNotUsed
    /\ sources = [n \in SourceNames |-> ZeroConfig]
    /\ fails = {}
    /\ script = ZeroOptions
    /\ conf = ZeroConfig
    /\ cerr = ""
    /\ stage = "none"
    /\ applied = ZeroConfig
    /\ excfg = [Type |-> "none"]
    /\ exst = "none"
    /\ vu = <<>>
    /\ attempted = 0
    /\ claims = <<>>
    /\ doneIters = 0
    /\ expired = FALSE
    /\ clk = 0
    /\ cur = 0
    /\ activeVUs = 0
    /\ result = <<>>

----------------------------------------------------------------------------
(* validateConfig (config package) *)

\* the texts of the errors that conf.Validate() may collect
ErrorTexts == {"bad vus", "bad duration", "bad stages"}
ErrLists == UNION {[1..n -> ErrorTexts] : n \in 0..MaxErrors}

ProblemsHeader == "There were problems with the specified configuration:"

\* fmt.Sprintf("\t- %s", err.Error())
Sprintf(e) == <<"\t- ", e>>

\* strings.Join
RECURSIVE Join(_, _)
Join(parts, sep) ==
    IF parts = <<>> THEN <<>>
    ELSE IF Len(parts) = 1 THEN parts[1]
    ELSE parts[1] \o <<sep>> \o Join(Tail(parts), sep)

\* errMsgParts after the loop over errList
errMsgParts(el) ==
    <<<<ProblemsHeader>>>> \o [i \in 1..Len(el) |-> Sprintf(el[i])]

validateConfigFirst(el) ==
    IF Len(el) = 0 THEN NilError
    ELSE ErrorsNew(Join(errMsgParts(<<el[1]>>), "\n"))

validateConfig(el) ==
    IF Len(el) = 0 THEN NilError
    ELSE ErrorsNew(Join(errMsgParts(el), "\n"))

\* conf.Validate() has collected any list of errors
InitValidate ==
    /\ OnlyCommand
    /\ MoreNotUsed
    /\ DialerNotUsed
    /\ BarNotUsed
    /\ PoolNotUsed
    /\ errList \in ErrLists
    /\ valErr = NilError
    /\ valst = "call"

ValidateConfig ==
    /\ valst = "call"
    /\ valErr' = validateConfig(errList)
    /\ valst' = "returned"
    /\ UNCHANGED <<resVars, cfgVars, exVars, dialVars, barVars, esVars,
                   moreVars, errList>>

NextValidate == ValidateConfig

SpecValidate == InitValidate /\ [][NextValidate]_vars

----------------------------------------------------------------------------
(* The dialer (lib/netext/dialer.go) *)

DialNames == {"a", "b"}
DialPorts == {"80"}
\* addr, split at its last colon: a name or an IP literal, and a port
DialAddrs == [host : DialNames \cup {Addr4, Addr6}, port : DialPorts]

ErrDnsr == "dnsr error"
ErrBlackListed == "IP is in a blacklisted range"
ErrDial == "dial error"

\* what ResolveErr answers to a question: an error, no record or a record
DnsrAnswers == [A : {"err", "none", Addr4}, AAAA : {"err", "none", Addr6}]

\* the results of resolve and the lookups: (ip, err), d.Metacache after
\* and the questions put to d.Resolver.ResolveErr, in order
Resolved(ip, meta, asked) ==
    [ip |-> ip, err |-> "", meta |-> meta, asked |-> asked]
ResolveFailed(e, meta, asked) ==
    [ip |-> "", err |-> e, meta |-> meta, asked |-> asked]

dialLookup6(host, meta) ==
    LET q6 == <<host, "AAAA">>
        q4 == <<host, "A">>
    IN  IF dnsr[host].AAAA = "err" THEN ResolveFailed(ErrDnsr, meta, <<q6>>)
        ELSE IF ParseIP(dnsr[host].AAAA) # ""
            THEN Resolved(ParseIP(dnsr[host].AAAA), meta, <<q6>>)
        ELSE IF dnsr[host].A = "err"
            THEN ResolveFailed(ErrDnsr, meta, <<q6, q4>>)
        ELSE IF ParseIP(dnsr[host].A) # ""
            THEN Resolved(ParseIP(dnsr[host].A), [meta EXCEPT ![host] = TRUE],
                          <<q6, q4>>)
        ELSE ResolveFailed(ErrUnable, meta, <<q6, q4>>)

dialLookup4(host, meta) ==
    LET q6 == <<host, "AAAA">>
        q4 == <<host, "A">>
        cleared == [meta EXCEPT ![host] = FALSE]
    IN  IF dnsr[host].A = "err" THEN ResolveFailed(ErrDnsr, meta, <<q4>>)
        ELSE IF ParseIP(dnsr[host].A) # ""
            THEN Resolved(ParseIP(dnsr[host].A), meta, <<q4>>)
        ELSE IF dnsr[host].AAAA = "err"
            THEN ResolveFailed(ErrDnsr, cleared, <<q4, q6>>)
        ELSE IF ParseIP(dnsr[host].AAAA) # ""
            THEN Resolved(ParseIP(dnsr[host].AAAA), cleared, <<q4, q6>>)
        ELSE ResolveFailed(ErrUnable, cleared, <<q4, q6>>)

dialLookup(host, meta) ==
    IF meta[host] THEN dialLookup4(host, meta) ELSE dialLookup6(host, meta)

dialResolve(host, meta) ==
    IF ParseIP(host) = "" THEN dialLookup(host, meta)
    ELSE Resolved(ParseIP(host), meta, <<>>)

\* ip.String(), in brackets if it holds a colon
ipStr(ip) == IF IsIP4(ip) THEN ip ELSE "[" \o ip \o "]"

\* The outcome of DialContext(ctx, proto, addr) when the embedded
\* net.Dialer connects (netok) or fails: the connection and error returned,
\* d.Metacache afterwards, the addresses handed to net.Dialer and the
\* questions put to d.Resolver.
DialOutcome(conn, e, r, tried) ==
    [conn |-> conn, err |-> e, meta |-> r.meta, tried |-> tried,
     asked |-> r.asked]

DialContextIgnoringErr(addr, netok) ==
    LET ok == Hosts[addr.host] # ""
        r  == IF ok THEN Resolved(Hosts[addr.host], Metacache, <<>>)
              ELSE dialResolve(addr.host, Metacache)
        ip == IF r.err # "" THEN Addr4 ELSE r.ip
        to == ipStr(ip) \o ":" \o addr.port
    IN  IF ip \in Blacklist
            THEN DialOutcome(NoConn, ErrBlackListed, r, <<>>)
        ELSE IF ~netok THEN DialOutcome(NoConn, ErrDial, r, <<to>>)
        ELSE DialOutcome(to, "", r, <<to>>)

\* one that checks the blacklist for resolved addresses only
DialContextTrustingHosts(addr, netok) ==
    LET ok == Hosts[addr.host] # ""
        r  == IF ok THEN Resolved(Hosts[addr.host], Metacache, <<>>)
              ELSE dialResolve(addr.host, Metacache)
        to == ipStr(r.ip) \o ":" \o addr.port
    IN  IF r.err # "" THEN DialOutcome(NoConn, r.err, r, <<>>)
        ELSE IF ~ok /\ r.ip \in Blacklist
            THEN DialOutcome(NoConn, ErrBlackListed, r, <<>>)
        ELSE IF ~netok THEN DialOutcome(NoConn, ErrDial, r, <<to>>)
        ELSE DialOutcome(to, "", r, <<to>>)

DialContextOutcome(addr, netok) ==
    LET ok == Hosts[addr.host] # ""
        r  == IF ok THEN Resolved(Hosts[addr.host], Metacache, <<>>)
              ELSE dialResolve(addr.host, Metacache)
        to == ipStr(r.ip) \o ":" \o addr.port
    IN  IF r.err # "" THEN DialOutcome(NoConn, r.err, r, <<>>)
        ELSE IF r.ip \in Blacklist
            THEN DialOutcome(NoConn, ErrBlackListed, r, <<>>)
        ELSE IF ~netok THEN DialOutcome(NoConn, ErrDial, r, <<to>>)
        ELSE DialOutcome(to, "", r, <<to>>)

\* a dialer with any Hosts override, blacklist and DNS answers
InitDial ==
    /\ OnlyCommand
    /\ MoreNotUsed
    /\ ValidateNotRun
    /\ BarNotUsed
    /\ PoolNotUsed
    /\ Hosts \in [DialNames \cup {Addr4, Addr6} -> {"", Addr4}]
    /\ Hosts[Addr4] = "" /\ Hosts[Addr6] = ""
    /\ Blacklist \in {{}, {Addr4}}
    /\ Metacache = [h \in DialNames \cup {Addr4, Addr6} |-> FALSE]
    /\ dnsr \in [DialNames -> DnsrAnswers]
    /\ attempts = <<>>
    /\ dcall = NoDial

DialContext(addr, netok) ==
    /\ Len(attempts) < MaxDials
    /\ LET o == DialContextOutcome(addr, netok) IN
        /\ Metacache' = o.meta
        /\ attempts' = attempts \o o.tried
        /\ dcall' = [addr |-> addr, conn |-> o.conn, err |-> o.err,
                     asked |-> o.asked]
    /\ UNCHANGED <<resVars, cfgVars, exVars, valVars, barVars, esVars,
                   moreVars, Hosts, Blacklist, dnsr>>

NextDial == \E addr \in DialAddrs, netok \in BOOLEAN : DialContext(addr, netok)

SpecDial == InitDial /\ [][NextDial]_vars

----------------------------------------------------------------------------
(* The progress bar (ui/pb), with one goroutine that modifies it and       *)
(* goroutines that render it.  A step is one access to the mutex or to a   *)
(* field of the bar.                                                       *)

\* the fields the options WithLeft, WithProgress and WithHijack set
Fields == {"left", "progress", "hijack"}

\* a field is nil, or the function that the n-th call of Modify was given
NilFunc == 0

Readers == {1, 2}

\* the options of one call: for each, the field it sets; no field twice
OptionLists ==
    {o \in UNION {[1..k -> Fields] : k \in 0..MaxOptions} :
        \A i, j \in DOMAIN o : o[i] = o[j] => i = j}

IdleModifier == [pc |-> "idle", options |-> <<>>, n |-> 0]
IdleReader == [pc |-> "idle", kind |-> "", seen |-> {}, start |-> 0]

\* sync.RWMutex: RLock waits for the writer, Lock for writer and readers
CanRLockAlways(m) == TRUE
CanRLock(m) == ~m.w
CanLock(m) == ~m.w /\ m.r = 0

\* New(): no option given
InitBar ==
    /\ OnlyCommand
    /\ MoreNotUsed
    /\ ValidateNotRun
    /\ DialerNotUsed
    /\ PoolNotUsed
    /\ pb = [f \in Fields |-> NilFunc]
    /\ mutex = [w |-> FALSE, r |-> 0]
    /\ modp = IdleModifier
    /\ rdp = [r \in Readers |-> IdleReader]
    /\ snaps = <<[f \in Fields |-> NilFunc]>>

BarOnly ==
    UNCHANGED <<resVars, cfgVars, exVars, valVars, dialVars, esVars, moreVars>>

\* Modify(options...) is called
ModifyCall(options) ==
    /\ modp.pc = "idle"
    /\ modp.n < MaxModify
    /\ modp' = [pc |-> "lock", options |-> options, n |-> modp.n + 1]
    /\ UNCHANGED <<pb, mutex, rdp, snaps>>
    /\ BarOnly

\* pb.mutex.Lock()
ModifyLock ==
    /\ modp.pc = "lock"
    /\ CanLock(mutex)
    /\ mutex' = [mutex EXCEPT !.w = TRUE]
    /\ modp' = [modp EXCEPT !.pc = "apply"]
    /\ UNCHANGED <<pb, rdp, snaps>>
    /\ BarOnly

\* option(pb), for the next option
ModifyApply ==
    /\ modp.pc = "apply"
    /\ modp.options # <<>>
    /\ pb' = [pb EXCEPT ![Head(modp.options)] = modp.n]
    /\ modp' = [modp EXCEPT !.options = Tail(modp.options)]
    /\ UNCHANGED <<mutex, rdp, snaps>>
    /\ BarOnly

\* the deferred pb.mutex.Unlock(), and the return
ModifyUnlock ==
    /\ modp.pc = "apply"
    /\ modp.options = <<>>
    /\ mutex' = [mutex EXCEPT !.w = FALSE]
    /\ modp' = [modp EXCEPT !.pc = "idle"]
    /\ snaps' = Append(snaps, pb)
    /\ UNCHANGED <<pb, rdp>>
    /\ BarOnly

\* Render(isTTY, leftMax) or Left() is called
ReadCall(r, kind) ==
    /\ rdp[r].pc = "idle"
    /\ rdp' = [rdp EXCEPT ![r] = [pc |-> "rlock", kind |-> kind, seen |-> {},
                                  start |-> Len(snaps)]]
    /\ UNCHANGED <<pb, mutex, modp, snaps>>
    /\ BarOnly

\* pb.mutex.RLock()
ReadRLock(r) ==
    /\ rdp[r].pc = "rlock"
    /\ CanRLock(mutex)
    /\ mutex' = [mutex EXCEPT !.r = @ + 1]
    /\ rdp' = [rdp EXCEPT ![r].pc =
                  IF rdp[r].kind = "Render" THEN "hijack" ELSE "left"]
    /\ UNCHANGED <<pb, modp, snaps>>
    /\ BarOnly

\* Render: if pb.hijack != nil { return pb.hijack() }
ReadHijack(r) ==
    /\ rdp[r].pc = "hijack"
    /\ rdp' = [rdp EXCEPT ![r].seen = @ \cup {<<"hijack", pb.hijack>>},
                          ![r].pc = IF pb.hijack # NilFunc THEN "runlock"
                                    ELSE "progress"]
    /\ UNCHANGED <<pb, mutex, modp, snaps>>
    /\ BarOnly

\* Render: if pb.progress != nil { progress, right = pb.progress() ... }
ReadProgress(r) ==
    /\ rdp[r].pc = "progress"
    /\ rdp' = [rdp EXCEPT ![r].seen = @ \cup {<<"progress", pb.progress>>},
                          ![r].pc = "left"]
    /\ UNCHANGED <<pb, mutex, modp, snaps>>
    /\ BarOnly

\* renderLeft: if pb.left != nil { l := pb.left() ... }
ReadLeft(r) ==
    /\ rdp[r].pc = "left"
    /\ rdp' = [rdp EXCEPT ![r].seen = @ \cup {<<"left", pb.left>>},
                          ![r].pc = "runlock"]
    /\ UNCHANGED <<pb, mutex, modp, snaps>>
    /\ BarOnly

\* the deferred pb.mutex.RUnlock(), and the return
ReadRUnlock(r) ==
    /\ rdp[r].pc = "runlock"
    /\ mutex' = [mutex EXCEPT !.r = @ - 1]
    /\ rdp' = [rdp EXCEPT ![r].pc = "returned"]
    /\ UNCHANGED <<pb, modp, snaps>>
    /\ BarOnly

\* the caller goes on to its next call
ReadNext(r) ==
    /\ rdp[r].pc = "returned"
    /\ rdp' = [rdp EXCEPT ![r] = IdleReader]
    /\ UNCHANGED <<pb, mutex, modp, snaps>>
    /\ BarOnly

NextBar ==
    \/ \E options \in OptionLists : ModifyCall(options)
    \/ ModifyLock
    \/ ModifyApply
    \/ ModifyUnlock
    \/ \E r \in Readers :
          \/ \E kind \in {"Render", "Left"} : ReadCall(r, kind)
          \/ ReadRLock(r)
          \/ ReadHijack(r)
          \/ ReadProgress(r)
          \/ ReadLeft(r)
          \/ ReadRUnlock(r)
          \/ ReadNext(r)

SpecBar == InitBar /\ [][NextBar]_vars

----------------------------------------------------------------------------
(* ExecutionState's pool of VUs, filled as by initializeVUs and used by    *)
(* executors that take VUs and return them.  Each operation is one step.   *)

PoolRest ==
    UNCHANGED <<resVars, cfgVars, valVars, dialVars, barVars, moreVars, excfg,
                exst, vu, attempted, claims, doneIters, expired, clk, cur,
                result>>

\* lib.NewExecutionState with a ceiling, and the number of VUs that
\* initializeVUs is to make: at most the ceiling
InitPool ==
    /\ OnlyCommand
    /\ MoreNotUsed
    /\ ValidateNotRun
    /\ DialerNotUsed
    /\ BarNotUsed
    /\ maxPossibleVUs \in 1..MaxPossible
    /\ number \in 1..maxPossibleVUs
    /\ serial = 0
    /\ newVUs = {}
    /\ initializedVUs = <<>>
    /\ activeSet = {}
    /\ fullIterationCount = 0
    /\ interruptedIterationCount = 0

\* es.InitializeNewVU: the next ID of the serial
InitializeNewVU ==
    /\ serial < number
    /\ serial' = serial + 1
    /\ newVUs' = newVUs \cup {serial + 1}
    /\ UNCHANGED <<maxPossibleVUs, number, initializedVUs, activeSet, activeVUs,
                   fullIterationCount, interruptedIterationCount>>
    /\ PoolRest

\* the pool with v at its end
Pushed(pool, v) == Append(pool, v)

\* the pool after a take; one that leaves the VU taken in it
TakenNot(pool) == pool
Taken(pool) == Tail(pool)

\* the active VUs after a return of v; one that keeps it
ReleasedNot(set, v) == set
Released(set, v) == set \ {v}

\* es.AddInitializedVU(vu)
AddInitializedVU(v) ==
    /\ v \in newVUs
    /\ newVUs' = newVUs \ {v}
    /\ initializedVUs' = Pushed(initializedVUs, v)
    /\ UNCHANGED <<maxPossibleVUs, number, serial, activeSet, activeVUs,
                   fullIterationCount, interruptedIterationCount>>
    /\ PoolRest

\* es.GetPlannedVU: waits for a VU in the pool and takes the first
GetPlannedVU ==
    /\ initializedVUs # <<>>
    /\ initializedVUs' = Taken(initializedVUs)
    /\ activeSet' = activeSet \cup {Head(initializedVUs)}
    /\ activeVUs' = activeVUs + 1
    /\ UNCHANGED <<maxPossibleVUs, number, serial, newVUs,
                   fullIterationCount, interruptedIterationCount>>
    /\ PoolRest

\* es.ReturnVU(vu, wasFull), by the caller that took vu
ReturnVU(v, wasFull) ==
    /\ v \in activeSet
    /\ fullIterationCount + interruptedIterationCount < MaxReturns
    /\ activeSet' = Released(activeSet, v)
    /\ activeVUs' = activeVUs - 1
    /\ initializedVUs' = Pushed(initializedVUs, v)
    /\ fullIterationCount' = fullIterationCount + (IF wasFull THEN 1 ELSE 0)
    /\ interruptedIterationCount' =
          interruptedIterationCount + (IF wasFull THEN 0 ELSE 1)
    /\ UNCHANGED <<maxPossibleVUs, number, serial, newVUs>>
    /\ PoolRest

NextPool ==
    \/ InitializeNewVU
    \/ \E v \in 1..MaxPossible : AddInitializedVU(v)
    \/ GetPlannedVU
    \/ \E v \in 1..MaxPossible, wasFull \in BOOLEAN : ReturnVU(v, wasFull)

SpecPool == InitPool /\ [][NextPool]_vars

----------------------------------------------------------------------------
(* Properties of the resolver *)

BothFamilies == ip4avail /\ ip6avail

\* the caller's lookup has returned
LookupReturned(q) == q.pc = "resolved" /\ q.calls # <<>>

\* C1: with both IP families available, lookup(host) looks IPv4 up first
\* when r.ip4[host] is true and IPv6 first otherwise; it looks the second
\* family up exactly when the first lookup returned no address, no CNAME
\* and no error, and never looks up more than the two families.
C1_FamilyOrder ==
    \A p \in Callers :
        LET q == proc[p] IN
        (BothFamilies /\ q.calls # <<>>) =>
            /\ q.calls[1].fam = (IF q.pref THEN 4 ELSE 6)
            /\ Len(q.calls) <= 2
            /\ Len(q.calls) = 2 =>
                  /\ q.calls[1].out = "nil"
                  /\ q.calls[2].fam = (IF q.pref THEN 6 ELSE 4)
            /\ (LookupReturned(q) /\ q.calls[1].out = "nil") => Len(q.calls) = 2

\* C1 witness: a lookup of an IPv4-preferred host missed on IPv4 and went
\* on to IPv6
C1_Witness ==
    \E p \in Callers :
        /\ BothFamilies
        /\ LookupReturned(proc[p])
        /\ proc[p].pref
        /\ Len(proc[p].calls) = 2
        /\ proc[p].calls[1].fam = 4

\* C2: with both IP families available and one caller, when lookup(host)
\* returns an address, r.ip4[host] is true iff the address is IPv4; a host
\* never handed to lookup is not IPv4-preferred.
C2_PreferenceFollowsAddress ==
    /\ \A p \in Callers :
          LET q == proc[p] IN
          (BothFamilies /\ LookupReturned(q) /\ q.res.kind = "ip") =>
              (ip4[q.name] <=> IsIP4(q.res.val))
    /\ \A n \in Names : n \notin looked => ~ip4[n]

\* C2 witness: lookup returned an IPv4 address found by the second
\* (IPv4) lookup of lookup64, and the host is IPv4-preferred
C2_Witness ==
    \E p \in Callers :
        /\ BothFamilies
        /\ LookupReturned(proc[p])
        /\ proc[p].res.kind = "ip"
        /\ IsIP4(proc[p].res.val)
        /\ ~proc[p].pref
        /\ ip4[proc[p].name]

\* C3: the IPv6 lookup asks an AAAA-typed question, and no single-family
\* lookup is answered from a cache entry that the lookup of the other
\* family stored.
C3_KeyedByQType ==
    \A p \in Callers :
        \A i \in 1..Len(proc[p].calls) :
            LET c == proc[p].calls[i] IN
            /\ c.fam = 6 => c.qtype = "AAAA"
            /\ c.hit => c.hitFam = c.fam

\* C6: in one Resolve call the CNAME hops followed through the CNAME cache
\* plus those followed through lookups never exceed the depth argument.
C6_HopsWithinDepth ==
    \A p \in Callers : proc[p].hopsC + proc[p].hopsF <= proc[p].depth

\* the zone holds the cycle a. -> b., b. -> a.
CycleZone ==
    /\ zone["a."].typ = "CNAME" /\ zone["a."].data = "b."
    /\ zone["b."].typ = "CNAME" /\ zone["b."].data = "a."

\* C7: with the cycle a. -> b., b. -> a. in the zone, an IP family
\* available and the name not served by the local hosts source, every
\* Resolve of a. or b. with depth 3 or more (depth 5 included) fails
\* with the CNAME-cycle error: raised by resolveName when the call found
\* the CNAME cache empty, and by canonicalName when it found both links
\* cached and unexpired.
C7_CycleFails ==
    \A p \in Callers :
        LET q == proc[p] IN
        (/\ CycleZone
         /\ q.pc = "done"
         /\ q.asked \in {"a.", "b."}
         /\ q.depth >= 3
         /\ ip4avail \/ ip6avail
         /\ ~readFiles) =>
            /\ q.ret = ErrRes(ErrCycle)
            /\ (\A n \in Names : q.atStart[n] = "none") => q.retBy = "resolveName"
            /\ (q.atStart["a."] = "live" /\ q.atStart["b."] = "live") =>
                  q.retBy = "canonicalName"

\* C7 witness: a call with depth 5 that found both links of the cycle
\* cached and unexpired has failed
C7_Witness ==
    \E p \in Callers :
        /\ CycleZone
        /\ proc[p].pc = "done"
        /\ proc[p].depth = 5
        /\ proc[p].asked = "a."
        /\ proc[p].atStart["a."] = "live"
        /\ proc[p].atStart["b."] = "live"
        /\ proc[p].retBy = "canonicalName"

\* C9: canonicalName never follows an entry whose expiry lies before the
\* time it read at its start: on reading such an entry it deletes that
\* entry and returns the name reached so far, which is then looked up; no
\* step deletes or changes an entry that canonicalName found unexpired.
C9_LazyPurge ==
    [][\A p \in Callers :
         LET q  == proc[p]
             q2 == proc'[p]
             stale == cname[q.name].some /\ q.nowL > cname[q.name].expiry
         IN
         /\ (q.pc = "canon" /\ q2 # q /\ stale) =>
               /\ q2.pc = "purge"
               /\ q2.name = q.name
               /\ q2.hopsC = q.hopsC
               /\ cname' = cname
         /\ (q.pc = "purge" /\ q2 # q) =>
               /\ ~cname'[q.name].some
               /\ q2.pc = "lookup"
               /\ q2.name = q.name
               /\ q2.hopsC = q.hopsC
         /\ (q.pc \in {"canon", "purge"} /\ q2 # q) =>
               \A n \in Names :
                   (cname[n].some /\ cname'[n] # cname[n]) =>
                       (q.pc = "purge" /\ n = q.name /\ q.nowL > cname[n].expiry)
      ]_vars

\* C9 witness: canonicalName has deleted an expired entry after following
\* an unexpired one
C9_Witness ==
    \E p \in Callers :
        /\ proc[p].pc = "lookup"
        /\ proc[p].hopsC = 1
        /\ proc[p].hopsF = 0
        /\ proc[p].atStart[proc[p].name] = "expired"
        /\ ~cname[proc[p].name].some

\* C10: a single-family lookup made after the expiry T+t of the response
\* cached under its key does not use that response: it queries the
\* BaseResolver and, when that returns a response, stores it under the key
\* with the expiry counted from the time of the lookup.
C10_ExpiredResponseRequeried ==
    \A p \in Callers :
        \A i \in 1..Len(proc[p].calls) :
            LET c == proc[p].calls[i]
                key == <<proc[p].name, c.qtype>>
            IN
            (c.had /\ c.at > c.exp) =>
                /\ ~c.hit
                /\ c.queried
                /\ c.stored =>
                      /\ cache[key].some
                      /\ cache[key].expiry >= c.at + MsgTTL(cache[key].answer)

\* C10 witness: a lookup found an expired response under its key
C10_Witness ==
    \E p \in Callers :
        /\ proc[p].calls # <<>>
        /\ proc[p].calls[1].had
        /\ proc[p].calls[1].at > proc[p].calls[1].exp
        /\ proc[p].calls[1].stored

\* the access to r.ip4 or r.cname that the caller's next step begins with
PendingAccess(p) ==
    LET q == proc[p] IN
    CASE q.pc = "canon"    -> {<<"cname", "read">>}
      [] q.pc = "purge"    -> {<<"cname", "write">>}
      [] q.pc = "lookup"   -> IF BothFamilies THEN {<<"ip4", "read">>} ELSE {}
      [] q.pc = "second46" -> {<<"ip4", "write">>}
      [] q.pc = "mark4"    -> {<<"ip4", "write">>}
      [] q.pc = "resolved" -> IF FollowsCName(q) THEN {<<"cname", "write">>} ELSE {}
      [] OTHER             -> {}

\* two callers are about to access the same map, one of them writing:
\* the Resolver has no lock, so nothing orders the two accesses
Race(p1, p2) ==
    \E a \in PendingAccess(p1), b \in PendingAccess(p2) :
        a[1] = b[1] /\ (a[2] = "write" \/ b[2] = "write")

\* C8: no two concurrent Resolve calls access r.ip4 or r.cname at the same
\* time with one of the accesses a write.
C8_NoConcurrentMapAccess ==
    \A p1, p2 \in Callers : p1 # p2 => ~Race(p1, p2)

----------------------------------------------------------------------------
(* Properties of the archive command's consolidation *)

\* C4: in the archive command's consolidation an option that the
\* environment and a CLI flag set to different values, and that the script
\* does not set, ends with the value of the CLI flag.
C4_CliOverridesEnv ==
    (/\ stage = "applied"
     /\ sources["env"].Options.VUs.Valid
     /\ sources["cli"].Options.VUs.Valid
     /\ sources["env"].Options.VUs # sources["cli"].Options.VUs
     /\ ~script.VUs.Valid) =>
        conf.Options.VUs = sources["cli"].Options.VUs

\* C5: merging lets an explicit null on the right-hand side replace a
\* concrete value: Config.Apply of a config whose linger is null over
\* linger = true yields linger null. In the archive command's
\* consolidation: the file sets linger = true, the flags and the
\* environment hold null, and config.Get yields linger null.
C5_ExplicitNullReplaces ==
    (/\ stage = "got"
     /\ sources["file"].Linger = BoolFrom(TRUE)
     /\ sources["cli"].Linger = NullBool
     /\ sources["env"].Linger = NullBool) =>
        conf.Linger = NullBool

\* the non-loopback addresses of the list are all of the given kind
OnlyAddresses(addresses, kind) ==
    /\ \E i \in 1..Len(addresses) : addresses[i] = kind
    /\ \A i \in 1..Len(addresses) : addresses[i] \in {"lo", kind}

\* the machine's interface addresses can be the given list: the package
\* flags are the ones detectInterfaces computes from it
MachineHas(addresses) ==
    /\ detectInterfaces(addresses).ip4 = ip4avail
    /\ detectInterfaces(addresses).ip6 = ip6avail

\* C12: on a machine whose non-loopback addresses are all IPv4 no IPv6
\* lookup is made, and on a machine whose non-loopback addresses are all
\* IPv6 no IPv4 lookup is made.
C12_AbsentFamilySkipped ==
    \A addresses \in InterfaceLists, p \in Callers :
        \A i \in 1..Len(proc[p].calls) :
            /\ (MachineHas(addresses) /\ OnlyAddresses(addresses, "v4")) =>
                   proc[p].calls[i].fam # 6
            /\ (MachineHas(addresses) /\ OnlyAddresses(addresses, "v6")) =>
                   proc[p].calls[i].fam # 4

----------------------------------------------------------------------------
(* Properties of Get and of Config.Apply *)

\* the value of the last of three null values that is valid, null if none
LastValid(a, b, c, null) ==
    IF c.Valid THEN c ELSE IF b.Valid THEN b ELSE IF a.Valid THEN a ELSE null

\* C17: when every getter succeeds Get returns applyDefault of the zero
\* Config with the getters' results applied in argument order, which is
\* also the result of calling each getter once in that order: for every
\* option the last source that sets it determines the value, and the
\* default system tags are set only when no source set system tags.
C17_GetFoldsInOrder ==
    stage = "got" =>
        LET f == sources["file"]
            c == sources["cli"]
            e == sources["env"]
        IN  /\ conf = applyDefault(Apply(Apply(Apply(ZeroConfig, f), c), e))
            /\ conf = Get(<<FromFile, configFromCli, FromEnv>>).conf
            /\ Get(<<FromFile, configFromCli, FromEnv>>).err = ""
            /\ conf.Linger = LastValid(f.Linger, c.Linger, e.Linger, NullBool)
            /\ conf.NoUsageReport =
                  LastValid(f.NoUsageReport, c.NoUsageReport, e.NoUsageReport,
                            NullBool)
            /\ conf.NoThresholds =
                  LastValid(f.NoThresholds, c.NoThresholds, e.NoThresholds,
                            NullBool)
            /\ conf.NoSummary =
                  LastValid(f.NoSummary, c.NoSummary, e.NoSummary, NullBool)
            /\ conf.Options.VUs =
                  LastValid(f.Options.VUs, c.Options.VUs, e.Options.VUs,
                            NullInt)
            /\ conf.Out = IF Len(e.Out) > 0 THEN e.Out
                          ELSE IF Len(c.Out) > 0 THEN c.Out ELSE f.Out
            /\ conf.Options.SystemTags =
                  IF \A n \in SourceNames :
                        sources[n].Options.SystemTags = NilTags
                  THEN DefaultSystemTagList
                  ELSE "custom"

\* all getters succeeded; the file and the environment set different vus,
\* the flags and the environment different noThresholds, only the file set
\* linger with only the flags after it setting Out, and none set system tags
C17_Witness ==
    /\ stage = "got"
    /\ sources["file"].Options.VUs = IntFrom(10)
    /\ sources["env"].Options.VUs = IntFrom(20)
    /\ sources["cli"].NoThresholds = BoolFrom(TRUE)
    /\ sources["env"].NoThresholds = BoolFrom(FALSE)
    /\ sources["file"].Linger = BoolFrom(TRUE)
    /\ sources["cli"].Linger = NullBool
    /\ sources["file"].Out = <<"json">>
    /\ sources["cli"].Out = <<"csv">>
    /\ sources["env"].Out = <<>>
    /\ sources["cli"].Options.SystemTags = NilTags
    /\ conf.Options.VUs = IntFrom(20)
    /\ conf.Out = <<"csv">>
    /\ conf.Options.SystemTags = DefaultSystemTagList

\* the step is conf = conf.Apply(c) of Get's loop, with c of the getter
ApplyStep(name) ==
    /\ stage = name
    /\ stage' # "failed"

\* C18: Config.Apply(c, cfg) holds, for each of Linger, NoUsageReport,
\* NoThresholds and NoSummary, cfg's value if that is set and c's value
\* otherwise; its Out is cfg.Out if that is non-empty and c.Out otherwise;
\* and cfg is left as it was. Stated of every Apply of Get's loop.
C18_ApplyPerField ==
    [][\A name \in SourceNames :
          ApplyStep(name) =>
            LET cfg == sources[name] IN
            /\ conf'.Linger =
                  IF cfg.Linger.Valid THEN cfg.Linger ELSE conf.Linger
            /\ conf'.NoUsageReport =
                  IF cfg.NoUsageReport.Valid THEN cfg.NoUsageReport
                  ELSE conf.NoUsageReport
            /\ conf'.NoThresholds =
                  IF cfg.NoThresholds.Valid THEN cfg.NoThresholds
                  ELSE conf.NoThresholds
            /\ conf'.NoSummary =
                  IF cfg.NoSummary.Valid THEN cfg.NoSummary
                  ELSE conf.NoSummary
            /\ conf'.Out = IF Len(cfg.Out) > 0 THEN cfg.Out ELSE conf.Out
            /\ Len(cfg.Out) = 0 => conf'.Out = conf.Out
            /\ sources' = sources]_vars

\* the environment has just been applied over a conf that held linger,
\* noThresholds and an Out: it set noThresholds to another value and
\* noSummary, and left linger and, with its empty Out, the Out as they were
C18_Witness ==
    /\ stage = "default"
    /\ sources["file"].Linger.Valid
    /\ sources["file"].Out = <<"json">>
    /\ sources["cli"].Out = <<>>
    /\ sources["cli"].NoThresholds = BoolFrom(TRUE)
    /\ sources["cli"].NoUsageReport = BoolFrom(FALSE)
    /\ sources["env"].NoThresholds = BoolFrom(FALSE)
    /\ sources["env"].NoSummary = BoolFrom(TRUE)
    /\ sources["env"].Out = <<>>
    /\ conf.Linger = sources["file"].Linger
    /\ conf.NoThresholds = BoolFrom(FALSE)
    /\ conf.NoUsageReport = BoolFrom(FALSE)
    /\ conf.NoSummary = BoolFrom(TRUE)
    /\ conf.Out = <<"json">>

----------------------------------------------------------------------------
(* Properties of the shortcut rewrite *)

\* DeriveAndValidate has returned: applied is its argument, conf its result
Derived == stage \in {"derived", "invalid"}

\* the map holds exactly one executor, named "default", of the given type
OnlyDefault(e, type) ==
    /\ e.set
    /\ DOMAIN e.map = {DefaultSchedulerName}
    /\ e.map[DefaultSchedulerName].Type = type
    /\ e.map[DefaultSchedulerName].Name = DefaultSchedulerName

\* C13: the synthesized executor follows the precedence iterations, then
\* duration, then stages. With iterations set the result's Execution is one
\* shared-iterations executor "default" (vus, iterations, maxDuration the
\* duration if that is set and the constructor's default if not), whatever
\* the stages; else with a duration > 0 one constant-VUs executor "default"
\* (vus, duration), whatever the stages; else with the duration unset and
\* non-empty stages one ramping-VUs executor "default" with startVUs = vus.
\* The Execution of the input is replaced.
C13_ShortcutPrecedence ==
    Derived =>
        LET i == applied.Options
            e == conf.Options.Execution
            ds == e.map[DefaultSchedulerName]
        IN  /\ i.Iterations.Valid =>
                  /\ OnlyDefault(e, "shared-iterations")
                  /\ ds.VUs = i.VUs
                  /\ ds.Iterations = i.Iterations
                  /\ i.Duration.Valid => ds.MaxDuration = i.Duration
                  /\ ~i.Duration.Valid =>
                        ds.MaxDuration =
                          NewSharedIterationsConfig(DefaultSchedulerName).MaxDuration
            /\ (~i.Iterations.Valid /\ i.Duration.Valid
                    /\ i.Duration.Duration > 0) =>
                  /\ OnlyDefault(e, "constant-looping-vus")
                  /\ ds.VUs = i.VUs
                  /\ ds.Duration = i.Duration
            /\ (~i.Iterations.Valid /\ ~i.Duration.Valid
                    /\ Len(i.Stages.list) > 0) =>
                  /\ OnlyDefault(e, "variable-looping-vus")
                  /\ ds.StartVUs = i.VUs

\* iterations, a duration and stages were all given, over an Execution of
\* the input that named two executors
C13_Witness ==
    /\ Derived
    /\ applied.Options.Iterations.Valid
    /\ applied.Options.Duration.Valid
    /\ Len(applied.Options.Stages.list) > 0
    /\ DOMAIN applied.Options.Execution.map = {"default", "mine"}
    /\ OnlyDefault(conf.Options.Execution, "shared-iterations")

\* C14: with iterations unset and a duration set to a value <= 0 no
\* executor is synthesized: the result is the input, Execution and all
\* other fields, whatever the stages.
C14_InfiniteDurationKeeps ==
    (/\ Derived
     /\ ~applied.Options.Iterations.Valid
     /\ applied.Options.Duration.Valid
     /\ applied.Options.Duration.Duration <= 0) =>
        conf = applied

C14_Witness ==
    /\ Derived
    /\ ~applied.Options.Iterations.Valid
    /\ applied.Options.Duration = NullDurationFrom(-1)
    /\ Len(applied.Options.Stages.list) > 0
    /\ DOMAIN applied.Options.Execution.map = {"mine"}
    /\ conf = applied

\* C15: the rewrite is idempotent: deriveExecutionConfig of a result of
\* deriveExecutionConfig is that result, Execution and remaining options.
C15_DeriveIdempotent ==
    Derived =>
        /\ conf = deriveExecutionConfig(applied).conf
        /\ deriveExecutionConfig(conf).conf = conf

\* the first rewrite changed the configuration: it replaced an Execution
C15_Witness ==
    /\ Derived
    /\ conf # applied
    /\ applied.Options.Execution.set
    /\ DOMAIN applied.Options.Execution.map # {}
    /\ Len(applied.Options.Stages.list) > 0
    /\ deriveExecutionConfig(conf).conf = conf

\* C16: with iterations and duration unset and no stages, an Execution that
\* is unset or empty becomes one per-VU-iterations executor "default" with
\* 1 VU and 1 iteration, and a non-empty Execution is returned unchanged.
C16_DefaultExecutor ==
    (/\ Derived
     /\ ~applied.Options.Iterations.Valid
     /\ ~applied.Options.Duration.Valid
     /\ Len(applied.Options.Stages.list) = 0) =>
        LET e == conf.Options.Execution
            ds == e.map[DefaultSchedulerName]
        IN  IF DOMAIN applied.Options.Execution.map = {}
            THEN /\ OnlyDefault(e, "per-vu-iterations")
                 /\ ds.VUs.Int64 = 1
                 /\ ds.Iterations.Int64 = 1
            ELSE e = applied.Options.Execution

\* no shortcut was given and the Execution was set to an empty map
C16_Witness ==
    /\ Derived
    /\ ~applied.Options.Iterations.Valid
    /\ ~applied.Options.Duration.Valid
    /\ applied.Options.Stages = StagesFrom(<<>>)
    /\ applied.Options.Execution = ConfigMap(NoConfigs)
    /\ applied.Options.VUs = IntFrom(10)
    /\ OnlyDefault(conf.Options.Execution, "per-vu-iterations")

----------------------------------------------------------------------------
(* Properties of the executors *)

\* C19: a shared-iterations executor with N VUs and I iterations whose
\* maxDuration does not expire calls the runner function exactly I times
\* under every interleaving of the VUs: no iteration number is claimed
\* twice, none is skipped, and Run returns without error (it is never
\* stuck before it returns).
C19_SharedIterationsExact ==
    /\ \A n \in DOMAIN claims : claims[n] <= 1
    /\ doneIters <= excfg.Iterations
    /\ exst = "running" => ENABLED NextShared
    /\ (exst = "returned" /\ ~expired) =>
          /\ doneIters = excfg.Iterations
          /\ \A n \in DOMAIN claims : claims[n] = 1

\* Run returned after the largest number of VUs shared the largest number
\* of iterations, each of them having run one
C19_Witness ==
    /\ exst = "returned"
    /\ ~expired
    /\ excfg.VUs = MaxVUs
    /\ excfg.Iterations = MaxIterations
    /\ doneIters = MaxIterations
    /\ \A v \in DOMAIN vu : vu[v].iter > 0

\* C20: in the ramping-VUs executor the number of active VUs at the end
\* of each stage is the stage's target, a stage of no duration changes the
\* number at once, and after Run has returned the number is 0; the stages
\* (1s,5), (0,3), (1s,3) from 5 start VUs are sampled as 5, 3, 0 at 100ms,
\* 1.1s and 2.1s.
C20_RampReachesTargets ==
    /\ (exst = "running" /\ cur >= 1 /\ clk = StageEnd(cur)) =>
          activeVUs = excfg.Stages[cur].Target
    /\ exst = "returned" => activeVUs = 0
    /\ (excfg = TestVariableLoopingVUsConfig
           /\ Len(result) = Len(SampleTimes)) =>
          result = <<5, 3, 0>>

\* the test's run has returned and its three samples are taken
C20_Witness ==
    /\ excfg = TestVariableLoopingVUsConfig
    /\ exst = "returned"
    /\ result = <<5, 3, 0>>

----------------------------------------------------------------------------
(* Properties of consecutive calls *)

\* the second caller's call followed the first caller's call, both have
\* returned and no time has passed since the first call began
ConsecutiveCalls ==
    /\ proc[1].pc = "done"
    /\ proc[2].pc = "done"
    /\ proc[1].asked = proc[2].asked
    /\ proc[1].depth = proc[2].depth

\* C11: two consecutive Resolve calls for one host, with no time passing
\* (hence no cache entry expiring) from the start of the first call to the
\* end of the second, return the same IP address, even if the zone changed
\* in between.
C11_Idempotent ==
    (/\ ConsecutiveCalls
     /\ now = proc[1].nowL
     /\ proc[1].ret.kind = "ip") =>
        proc[2].ret = proc[1].ret

----------------------------------------------------------------------------
(* Properties of Resolve's shortcuts *)

\* the step is the beginning of a Resolve call by caller p
ResolveBegins(p) ==
    /\ proc[p].pc = "idle"
    /\ proc'[p].pc # "idle"

\* C23: Resolve consults the hosts source before the CNAME cache and DNS,
\* and only if nsswitch.conf was read and lists "files" for hosts: a call
\* for a name (not an IP literal) that the hosts file lists ends at once
\* with one of the listed addresses, with no lookup and with the DNS
\* cache, the CNAME cache and the family map as they were; and no call
\* ends with an address of the hosts file unless "files" is listed.
C23_HostsFileFirst ==
    [][\A p \in Callers :
          ResolveBegins(p) =>
            LET q == proc'[p] IN
            /\ (readFiles /\ ParseIP(q.host) = ""
                   /\ LookupStaticHost(q.host) # {}) =>
                  /\ q.pc = "done"
                  /\ q.retBy = "resolveLocal"
                  /\ q.ret.kind = "ip"
                  /\ q.ret.val \in LookupStaticHost(q.host)
                  /\ q.calls = <<>>
                  /\ looked' = looked
                  /\ cache' = cache
                  /\ cname' = cname
                  /\ ip4' = ip4
            /\ q.retBy = "resolveLocal" => readFiles]_vars

\* a call for the name "A", not normalised, ended with an address of the
\* hosts file while the zone holds another record for the name
C23_Witness ==
    /\ proc[1].pc = "done"
    /\ proc[1].host = "A"
    /\ proc[1].retBy = "resolveLocal"
    /\ proc[1].ret = IPRes(Addr6)
    /\ readFiles
    /\ zone["a."].typ = "CNAME"

\* C25: a Resolve call whose host is an IP literal ends at once with that
\* address: the hosts file is not consulted, no lookup is made and the DNS
\* cache, the CNAME cache and the family map are as they were.
C25_IPLiteralVerbatim ==
    [][\A p \in Callers :
          (ResolveBegins(p) /\ proc'[p].host \in IPAddrs) =>
            LET q == proc'[p] IN
            /\ q.pc = "done"
            /\ q.retBy = "ParseIP"
            /\ q.ret = IPRes(q.host)
            /\ q.calls = <<>>
            /\ looked' = looked
            /\ cache' = cache
            /\ cname' = cname
            /\ ip4' = ip4]_vars

\* a call for 10.0.0.1 ended with it after an earlier call had filled the
\* DNS cache and the CNAME cache
C25_Witness ==
    /\ proc[1].pc = "done"
    /\ proc[1].host = "10.0.0.1"
    /\ proc[1].ret = IPRes("10.0.0.1")
    /\ proc[1].retBy = "ParseIP"
    /\ \E k \in CacheKeys : cache[k].some
    /\ \E n \in Names : cname[n].some

----------------------------------------------------------------------------
(* Properties of failed lookups *)

\* C24: when lookup(host) finds neither an address nor a CNAME for host it
\* returns an error, and host is not IPv4-preferred afterwards, whatever
\* the preference was before the call.
C24_FailureClearsPreference ==
    \A p \in Callers :
        LET q == proc[p] IN
        (LookupReturned(q) /\ q.res.kind \notin {"ip", "cname"}) =>
            /\ q.res.kind = "err"
            /\ ~ip4[q.name]

----------------------------------------------------------------------------
(* Properties of the CNAME chain *)

\* the number of CNAME hops from name n to the first record of the zone
\* that is not a CNAME, and that record
RECURSIVE ChainHops(_, _)
ChainHops(z, n) ==
    IF z[n].typ = "CNAME" /\ z[n].data # n THEN 1 + ChainHops(z, z[n].data)
    ELSE 0
RECURSIVE ChainEnd(_, _)
ChainEnd(z, n) ==
    IF z[n].typ = "CNAME" /\ z[n].data # n THEN ChainEnd(z, z[n].data)
    ELSE z[n]

\* the zone's chain from n has no cycle: it holds at most two hops, through
\* different names
CycleFree(z, n) ==
    /\ z[n].typ = "CNAME" => z[n].data # n
    /\ (z[n].typ = "CNAME" /\ z[z[n].data].typ = "CNAME") =>
          z[z[n].data].data \notin {n, z[n].data}

\* caller p's Resolve has returned; it found the CNAME cache empty, went to
\* DNS, the zone was never changed, and its chain from the asked name is
\* free of cycles and ends in an address of a family the machine has
ChainCall(p) ==
    /\ proc[p].pc = "done"
    /\ proc[p].retBy \notin {"ParseIP", "resolveLocal"}
    /\ \A n \in Names : proc[p].atStart[n] = "none"
    /\ nset = 0
    /\ CycleFree(zone, proc[p].asked)
    /\ ChainEnd(zone, proc[p].asked).typ \in {"A", "AAAA"}
    /\ ChainEnd(zone, proc[p].asked).typ = "A" => ip4avail
    /\ ChainEnd(zone, proc[p].asked).typ = "AAAA" => ip6avail

\* C29: starting from an empty CNAME cache, Resolve(host, d) over a chain
\* of k CNAME hops without cycle that ends in an address (of a family the
\* machine has, in a zone that does not change) returns that address if
\* k <= d and fails with the chain-too-long error if k > d.
C29_ChainWithinDepth ==
    \A p \in Callers :
        ChainCall(p) =>
            IF ChainHops(zone, proc[p].asked) <= proc[p].depth
            THEN /\ proc[p].ret.kind = "ip"
                 /\ proc[p].ret.val = ChainEnd(zone, proc[p].asked).data
            ELSE proc[p].ret = ErrRes(ErrTooLong)

\* a chain of two hops was resolved with depth 2
C29_Witness ==
    /\ ChainCall(1)
    /\ ChainHops(zone, proc[1].asked) = 2
    /\ proc[1].depth = 2
    /\ proc[1].hopsF = 2
    /\ proc[1].ret.kind = "ip"

\* a chain of two hops failed with depth 1
C29_WitnessTooLong ==
    /\ ChainCall(1)
    /\ ChainHops(zone, proc[1].asked) = 2
    /\ proc[1].depth = 1
    /\ proc[1].ret = ErrRes(ErrTooLong)

\* caller p is in a lookup of the name given to Resolve, or back from it
LooksAskedUp(p) ==
    /\ proc[p].pc \in {"lookup", "second46", "second64", "mark4", "resolved"}
    /\ proc[p].name = proc[p].asked

\* the storing half of C30: the step of resolveName that follows a CNAME
\* record stores it under the name looked up, expiring TTL after now
LinkStored ==
    [][\A p \in Callers :
          (proc[p].pc = "resolved" /\ proc'[p].pc = "lookup") =>
            /\ cname'[proc[p].name].some
            /\ cname'[proc[p].name].name = proc[p].res.val
            /\ cname'[proc[p].name].name = proc'[p].name
            /\ cname'[proc[p].name].expiry = now + proc[p].res.ttl]_vars

\* the reading half of C30: a call that began while the link of its name
\* was cached and not expired is never in a lookup of that name
NoLookupOfAlias ==
    \A p \in Callers :
        (proc[p].asked \in Names /\ proc[p].pc # "done"
            /\ proc[p].atStart[proc[p].asked] = "live") =>
          ~LooksAskedUp(p)

\* C30: each CNAME link that resolveName follows is stored in the CNAME
\* cache under the name it looked up, with the target and with expiry =
\* the time of storing + the record's TTL; and a Resolve that begins while
\* the link of its name is in the cache and not expired makes no lookup of
\* that name.
C30_CNameLinkCached == LinkStored /\ []NoLookupOfAlias

----------------------------------------------------------------------------
(* Properties of validateConfig *)

\* the error texts in a message, in the order they appear
ErrorsIn(msg) == SelectSeq(msg, LAMBDA t : t \in ErrorTexts)

\* C22: validateConfig returns no error iff conf.Validate() collected no
\* error; otherwise it returns one error whose message holds every
\* collected error, each once per time collected, in the order collected.
C22_AllErrorsReported ==
    valst = "returned" =>
        /\ valErr.nil <=> errList = <<>>
        /\ ~valErr.nil =>
              /\ Head(valErr.msg) = ProblemsHeader
              /\ ErrorsIn(valErr.msg) = errList

\* validateConfig has returned the message of three errors, two the same
C22_Witness ==
    /\ valst = "returned"
    /\ errList = <<"bad stages", "bad vus", "bad stages">>
    /\ valErr.msg = <<ProblemsHeader, "\n", "\t- ", "bad stages", "\n",
                      "\t- ", "bad vus", "\n", "\t- ", "bad stages">>

----------------------------------------------------------------------------
(* Properties of the dialer *)

\* a call of DialContext returns in this step
DialReturns == dcall' # dcall \/ attempts' # attempts \/ Metacache' # Metacache

\* C26: when the host of the address is not in d.Hosts and d.resolve
\* returns an error for it, DialContext returns no connection and that
\* error, and hands no address to net.Dialer.DialContext.
C26_ResolveErrorPropagates ==
    [][\A e \in {ErrDnsr, ErrUnable} :
          (/\ DialReturns
           /\ Hosts[dcall'.addr.host] = ""
           /\ dialResolve(dcall'.addr.host, Metacache).err = e) =>
             /\ dcall'.err = e
             /\ dcall'.conn = NoConn
             /\ attempts' = attempts]_vars

\* after a connection was made, a call for a host that is not overridden
\* has returned the error of its resolution
C26_Witness ==
    /\ Len(attempts) = 1
    /\ Hosts[dcall.addr.host] = ""
    /\ dcall.addr.host \in DialNames
    /\ dialResolve(dcall.addr.host, Metacache).err \in {ErrDnsr, ErrUnable}
    /\ dcall.err = dialResolve(dcall.addr.host, Metacache).err
    /\ dcall.conn = NoConn

----------------------------------------------------------------------------
(* Properties of the progress bar *)

\* what reader r has read so far is what the fields held in snapshot j
SeenIn(r, j) == \A fv \in rdp[r].seen : snaps[j][fv[1]] = fv[2]

\* C28: what a Render or Left reads of the fields is what they held at
\* construction or when one call of Modify had returned, never the fields
\* with only some options of a call applied; and that call is not earlier
\* than the last one that had returned when the Render or Left was called.
C28_ReadsSeeWholeModify ==
    \A r \in Readers :
        rdp[r].pc # "idle" =>
            \E j \in rdp[r].start..Len(snaps) : SeenIn(r, j)

\* a Render called before the first Modify, one of two options, had
\* returned has itself returned, having read both fields as that Modify
\* left them
C28_Witness ==
    \E r \in Readers :
        /\ rdp[r].pc = "returned"
        /\ rdp[r].kind = "Render"
        /\ rdp[r].start = 1
        /\ rdp[r].seen = {<<"hijack", NilFunc>>, <<"progress", 1>>, <<"left", 1>>}

----------------------------------------------------------------------------
(* Properties of ExecutionState's pool *)

\* the VUs in the idle pool
Idle == {initializedVUs[i] : i \in DOMAIN initializedVUs}

----------------------------------------------------------------------------
(* Properties of the context *)

\* C31: every query of the BaseResolver made during a caller's Resolve is
\* made with the context that caller handed to Resolve (the contexts are
\* named after their callers).
C31_QueryWithOwnContext ==
    \A p \in Callers : proc[p].qctx \in {0, p}

----------------------------------------------------------------------------
(* Properties of the dialer's blacklist *)

\* the addresses net.Dialer would be handed for a blacklisted IP
BlacklistedTargets ==
    {ipStr(ip) \o ":" \o port : ip \in Blacklist, port \in DialPorts}

\* the address DialContext goes on with: from d.Hosts, else from d.resolve
DialIP(host) ==
    IF Hosts[host] # "" THEN Resolved(Hosts[host], Metacache, <<>>)
    ELSE dialResolve(host, Metacache)

\* C32: no address of a blacklisted IP is ever handed to net.Dialer; a
\* call whose address, from d.Hosts or from resolution, is blacklisted
\* returns BlackListedIPError and no connection without dialing; and a
\* call for a host in d.Hosts puts no question to the DNS resolver.
C32_BlacklistNeverDialed ==
    [][DialReturns =>
        LET host == dcall'.addr.host IN
        /\ \A i \in DOMAIN attempts' : attempts'[i] \notin BlacklistedTargets
        /\ (DialIP(host).err = "" /\ DialIP(host).ip \in Blacklist) =>
              /\ dcall'.err = ErrBlackListed
              /\ dcall'.conn = NoConn
              /\ attempts' = attempts
        /\ Hosts[host] # "" => dcall'.asked = <<>>]_vars

\* after a connection was made, a call for a host that d.Hosts maps to a
\* blacklisted address, and that DNS would resolve to another address,
\* has returned BlackListedIPError without a question to DNS
C32_Witness ==
    /\ Len(attempts) = 1
    /\ Hosts[dcall.addr.host] \in Blacklist
    /\ dnsr[dcall.addr.host].AAAA = Addr6
    /\ dcall.err = ErrBlackListed
    /\ dcall.conn = NoConn
    /\ dcall.asked = <<>>

----------------------------------------------------------------------------
(* Properties of lookup without a network *)

\* C33: with neither IP family available, lookup returns the error
\* "network interface unavailable" having made no single-family lookup
\* (so no access to the DNS cache and no query of the BaseResolver), and
\* leaves the DNS cache, r.ip4 and r.cname as they were.
C33_NoNetworkNoLookup ==
    [][\A p \in Callers :
          (/\ proc[p].pc = "lookup"
           /\ proc'[p].pc # "lookup"
           /\ ~ip4avail /\ ~ip6avail) =>
             /\ proc'[p].pc = "resolved"
             /\ proc'[p].res = ErrRes(ErrNoNet)
             /\ proc'[p].calls = <<>>
             /\ proc'[p].qctx = 0
             /\ cache' = cache
             /\ ip4' = ip4
             /\ cname' = cname]_vars

\* lookup has returned the no-network error for a name that has a record
C33_Witness ==
    \E p \in Callers :
        /\ ~ip4avail /\ ~ip6avail
        /\ proc[p].pc = "resolved"
        /\ proc[p].res = ErrRes(ErrNoNet)
        /\ zone[proc[p].name].typ \in {"A", "AAAA"}

----------------------------------------------------------------------------
(* Properties of the validation of the derived configuration *)

\* C34: DeriveAndValidate validates the configuration it returns: when the
\* configuration it has returned, synthesized Execution included, has
\* validation errors, it has returned an error with it
C34_ReturnedConfigValidated ==
    (Derived /\ Validate(conf) # {}) => cerr # ""

\* an input without errors whose derived configuration has one
C34_DerivedInvalid ==
    Derived /\ Validate(applied) = {} /\ Validate(conf) # {}

----------------------------------------------------------------------------
(* The dialer's byte counters: connections add to them in Conn.Read and    *)
(* Conn.Write, GetTrail takes them.  Each atomic operation is one step.    *)

\* the most bytes one Read or Write moves
MaxBytes == 2
\* the most bytes the connections move in one direction
MaxTotal == 3
\* the most calls of GetTrail
MaxTrails == 2

Conns == {1, 2}
Getters == {1, 2}

IdleIO == [pc |-> "idle", n |-> 0]
IdleGet == [pc |-> "idle", bytesWritten |-> 0]

\* atomic.AddInt64: the new value
AddInt64(v, delta) == v + delta
\* a read of the counter that leaves it as it is
LoadInt64(v, new) == [old |-> v, val |-> v]
\* atomic.SwapInt64: the old value, and the value the counter has after
SwapInt64(v, new) == [old |-> v, val |-> new]

\* the calls of GetTrail that have not returned
GetsInProgress == Cardinality({g \in Getters : gtp[g].pc # "idle"})

InitBytes ==
    /\ OnlyCommand
    /\ ValidateNotRun
    /\ DialerNotUsed
    /\ BarNotUsed
    /\ PoolNotUsed
    /\ InputsNotUsed
    /\ BytesRead = 0
    /\ BytesWritten = 0
    /\ cio = [c \in Conns |-> IdleIO]
    /\ gtp = [g \in Getters |-> IdleGet]
    /\ trails = <<>>
    /\ readTotal = 0
    /\ writtenTotal = 0

BytesRest ==
    UNCHANGED <<resVars, cfgVars, exVars, valVars, dialVars, barVars, esVars,
                inVars>>

\* Conn.Read: n, err := c.Conn.Read(b)
ConnRead(c, n) ==
    /\ cio[c].pc = "idle"
    /\ readTotal + n <= MaxTotal
    /\ cio' = [cio EXCEPT ![c] = [pc |-> "read", n |-> n]]
    /\ readTotal' = readTotal + n
    /\ BytesRest
    /\ UNCHANGED <<BytesRead, BytesWritten, gtp, trails, writtenTotal>>

\* Conn.Read: if n > 0 { atomic.AddInt64(c.BytesRead, int64(n)) }; return
ConnReadAdd(c) ==
    /\ cio[c].pc = "read"
    /\ BytesRead' = IF cio[c].n > 0 THEN AddInt64(BytesRead, cio[c].n)
                    ELSE BytesRead
    /\ cio' = [cio EXCEPT ![c] = IdleIO]
    /\ BytesRest
    /\ UNCHANGED <<BytesWritten, gtp, trails, readTotal, writtenTotal>>

\* Conn.Write: n, err := c.Conn.Write(b)
ConnWrite(c, n) ==
    /\ cio[c].pc = "idle"
    /\ writtenTotal + n <= MaxTotal
    /\ cio' = [cio EXCEPT ![c] = [pc |-> "write", n |-> n]]
    /\ writtenTotal' = writtenTotal + n
    /\ BytesRest
    /\ UNCHANGED <<BytesRead, BytesWritten, gtp, trails, readTotal>>

\* Conn.Write: if n > 0 { atomic.AddInt64(c.BytesWritten, int64(n)) }; return
ConnWriteAdd(c) ==
    /\ cio[c].pc = "write"
    /\ BytesWritten' = IF cio[c].n > 0 THEN AddInt64(BytesWritten, cio[c].n)
                       ELSE BytesWritten
    /\ cio' = [cio EXCEPT ![c] = IdleIO]
    /\ BytesRest
    /\ UNCHANGED <<BytesRead, gtp, trails, readTotal, writtenTotal>>

\* GetTrail: bytesWritten := atomic.SwapInt64(&d.BytesWritten, 0)
GetTrailWritten(g) ==
    /\ gtp[g].pc = "idle"
    /\ Len(trails) + GetsInProgress < MaxTrails
    /\ LET w == SwapInt64(BytesWritten, 0) IN
        /\ BytesWritten' = w.val
        /\ gtp' = [gtp EXCEPT ![g] = [pc |-> "swapped", bytesWritten |-> w.old]]
    /\ BytesRest
    /\ UNCHANGED <<BytesRead, cio, trails, readTotal, writtenTotal>>

\* GetTrail: bytesRead := atomic.SwapInt64(&d.BytesRead, 0), and the return
\* of the trail
GetTrailRead(g) ==
    /\ gtp[g].pc = "swapped"
    /\ LET r == SwapInt64(BytesRead, 0) IN
        /\ BytesRead' = r.val
        /\ trails' = Append(trails, [BytesRead |-> r.old,
                                     BytesWritten |-> gtp[g].bytesWritten])
    /\ gtp' = [gtp EXCEPT ![g] = IdleGet]
    /\ BytesRest
    /\ UNCHANGED <<BytesWritten, cio, readTotal, writtenTotal>>

NextBytes ==
    \/ \E c \in Conns, n \in 0..MaxBytes : ConnRead(c, n)
    \/ \E c \in Conns : ConnReadAdd(c)
    \/ \E c \in Conns, n \in 0..MaxBytes : ConnWrite(c, n)
    \/ \E c \in Conns : ConnWriteAdd(c)
    \/ \E g \in Getters : GetTrailWritten(g)
    \/ \E g \in Getters : GetTrailRead(g)

SpecBytes == InitBytes /\ [][NextBytes]_vars

----------------------------------------------------------------------------
(* Properties of the byte counters *)

\* the sum of a function's values over a finite set
RECURSIVE SumOver(_, _)
SumOver(f, S) ==
    IF S = {} THEN 0
    ELSE LET x == CHOOSE y \in S : TRUE IN f[x] + SumOver(f, S \ {x})

\* the bytes of all trails returned so far
TrailsRead ==
    SumOver([i \in DOMAIN trails |-> trails[i].BytesRead], DOMAIN trails)
TrailsWritten ==
    SumOver([i \in DOMAIN trails |-> trails[i].BytesWritten], DOMAIN trails)
\* the bytes a Read or Write in progress has moved and not yet added
PendingAdd(kind) ==
    SumOver([c \in Conns |-> IF cio[c].pc = kind THEN cio[c].n ELSE 0], Conns)
\* the bytes a GetTrail in progress has taken for the trail it will return
HeldWritten ==
    SumOver([g \in Getters |-> gtp[g].bytesWritten], Getters)
BytesQuiet ==
    /\ \A c \in Conns : cio[c].pc = "idle"
    /\ \A g \in Getters : gtp[g].pc = "idle"

\* C35: byte accounting is lossless under every interleaving of Conn.Read,
\* Conn.Write and GetTrail: the bytes of the trails returned so far, the
\* counter, and the share of the calls in progress add up to the bytes the
\* connections have moved, for reads and for writes; so when no call is in
\* progress the trails plus the counter are exactly the bytes moved, none
\* counted twice and none dropped
C35_ByteAccountingLossless ==
    /\ TrailsRead + BytesRead + PendingAdd("read") = readTotal
    /\ TrailsWritten + BytesWritten + HeldWritten + PendingAdd("write")
           = writtenTotal
    /\ BytesQuiet => /\ TrailsRead + BytesRead = readTotal
                     /\ TrailsWritten + BytesWritten = writtenTotal

\* a trail was returned with bytes of both kinds, a second GetTrail has
\* taken written bytes, and more were written and read since
C35_Witness ==
    /\ Len(trails) = 1
    /\ trails[1].BytesRead > 0 /\ trails[1].BytesWritten > 0
    /\ \E g \in Getters : gtp[g].pc = "swapped" /\ gtp[g].bytesWritten > 0
    /\ BytesWritten > 0
    /\ BytesRead > 0

----------------------------------------------------------------------------
(* Properties of a failing getter *)

\* the getters in the order of the arguments of Get
ArgOrder == <<"file", "cli", "env">>

\* the results of the first k getters applied in order to the zero Config
RECURSIVE AppliedPrefix(_)
AppliedPrefix(k) ==
    IF k = 0 THEN ZeroConfig
    ELSE Apply(AppliedPrefix(k - 1), sources[ArgOrder[k]])

\* the getters before the k-th do not fail and the k-th does
FirstFailing(k) ==
    /\ ArgOrder[k] \in fails
    /\ \A j \in 1..(k - 1) : ArgOrder[j] \notin fails

GetFailedAtOnce ==
    /\ cerr # "" => stage = "failed"
    /\ stage \in {"default", "got"} => fails = {}
    /\ stage = "failed" =>
          \E k \in DOMAIN ArgOrder :
              /\ FirstFailing(k)
              /\ cerr = ArgOrder[k]
              /\ conf = AppliedPrefix(k - 1)
              /\ Get(<<FromFile, configFromCli, FromEnv>>) =
                     [conf |-> conf, err |-> cerr]

\* C36: when a getter fails Get returns that getter's error at once: the
\* error is the one of the first failing getter in argument order, what was
\* gathered is the results of the getters before it with no default applied,
\* and after the failure Get takes no further step, so that no later getter
\* is evaluated
C36_FirstErrorReturned ==
    [](GetFailedAtOnce) /\ [][stage # "failed"]_vars

\* the second getter failed, the third would fail too, the first had set
\* the VUs and nothing set the system tags
C36_Witness ==
    /\ stage = "failed"
    /\ cerr = "cli"
    /\ fails = {"cli", "env"}
    /\ conf.Options.VUs.Valid
    /\ conf.Options.SystemTags = NilTags
    /\ applyDefault(conf) # conf

----------------------------------------------------------------------------
(* Properties of the depth *)

\* the caller is in canonicalName, in resolveName
InCanonicalName(q) == q.pc \in {"canon", "purge"}
InResolveName(q) ==
    q.pc \in {"lookup", "second46", "second64", "mark4", "resolved"}

\* the depth stays within 0 and the depth given to Resolve, and goes down
\* by one with every hop of the loop, of the recursion
DepthBounded ==
    \A p \in Callers :
        LET q == proc[p] IN
        /\ q.d \in 0..q.depth
        /\ InCanonicalName(q) => q.d + q.hopsC = q.depth /\ q.hopsF = 0
        /\ InResolveName(q) => q.d + q.hopsF = q.depth
        /\ q.hopsC <= q.depth
        /\ q.hopsF <= q.depth

\* C37: Resolve terminates whatever the zone and the CNAME cache hold,
\* cycles included: a call that has started returns; canonicalName's loop
\* and resolveName's recursion each make at most as many hops as the depth
\* given, so at most depth + 1 iterations and calls; the uint8 depth is
\* never decremented at 0, so it stays within 0 and the depth given
C37_ResolveTerminates ==
    /\ []DepthBounded
    /\ (proc[1].pc \notin {"idle", "done"}) ~> (proc[1].pc = "done")

\* the call found a cycle in the CNAME cache after using up part of its
\* depth; the call found a cycle in the zone with the depth all used
C37_Witness ==
    /\ proc[1].pc = "done"
    /\ proc[1].ret = ErrRes(ErrCycle)
    /\ proc[1].retBy = "resolveName"
    /\ proc[1].depth = MaxDepth
    /\ proc[1].hopsF = 3
    /\ cname["a."].some /\ cname["b."].some /\ cname["c."].some

----------------------------------------------------------------------------
(* The configuration file: ReadFromDisk *)

DefaultConfigFilePath == "loadimpact/k6/config.json"
CustomConfigFilePath == "custom.json"
Paths == {DefaultConfigFilePath, CustomConfigFilePath}

\* what the file system holds at a path: nothing, a file that Stat fails on
\* for another reason, a file that cannot be read, a file that is not JSON,
\* or a file with a configuration
NoFile == [kind |-> "absent", conf |-> ZeroConfig]
FileStates ==
    [kind : {"absent", "noaccess", "unreadable", "malformed"},
     conf : {ZeroConfig}]
        \cup [kind : {"json"},
              conf : {[ZeroConfig EXCEPT !.Options.VUs = v] :
                         v \in {NullInt, IntFrom(10)}}]

ErrNotExist == "file does not exist"
ErrPermission == "permission denied"
ErrReadFile == "read error"
ErrSyntax == "invalid character"

\* fs.Stat
Stat(f) ==
    CASE f.kind = "absent" -> ErrNotExist
      [] f.kind = "noaccess" -> ErrPermission
      [] OTHER -> ""
\* afero.ReadFile
ReadFile(f) == IF f.kind = "unreadable" THEN ErrReadFile ELSE ""
\* json.Unmarshal(data, &c): the error, and c after it
Unmarshal(f) ==
    IF f.kind = "malformed" THEN [conf |-> ZeroConfig, err |-> ErrSyntax]
    ELSE [conf |-> f.conf, err |-> ""]

\* the error of Stat is silenced: os.IsNotExist(err) && path == ""; one
\* that silences it for every path
SilencedAlways(e, path) == e = ErrNotExist
Silenced(e, path) == e = ErrNotExist /\ path = ""

\* ReadFromDisk(fs, path): the Config, its sourceFilePath and the error
ReadFromDisk(fs, path) ==
    LET realConfigFilePath == IF path = "" THEN DefaultConfigFilePath
                              ELSE path
        c == [conf |-> ZeroConfig, sourceFilePath |-> realConfigFilePath,
              err |-> ""]
        f == fs[realConfigFilePath]
    IN  IF Stat(f) # ""
        THEN [c EXCEPT !.err = IF Silenced(Stat(f), path) THEN "" ELSE Stat(f)]
        ELSE IF ReadFile(f) # "" THEN [c EXCEPT !.err = ReadFile(f)]
        ELSE [c EXCEPT !.conf = Unmarshal(f).conf, !.err = Unmarshal(f).err]

\* the rest of the command stands still while a source is read
InputsOnly ==
    /\ OnlyCommand
    /\ ValidateNotRun
    /\ DialerNotUsed
    /\ BarNotUsed
    /\ PoolNotUsed
    /\ BytesNotUsed
InputsRest ==
    UNCHANGED <<resVars, cfgVars, exVars, valVars, dialVars, barVars, esVars,
                byteVars, fsys, cfgpath, environ>>

\* any file system, and any path given or none
InitDisk ==
    /\ InputsOnly
    /\ fsys \in [Paths -> FileStates]
    /\ cfgpath \in {""} \cup Paths
    /\ environ = <<>>
    /\ rd = [st |-> "call"]

ReadDisk ==
    /\ rd.st = "call"
    /\ LET r == ReadFromDisk(fsys, cfgpath) IN
          rd' = [st |-> "returned", conf |-> r.conf,
                 sourceFilePath |-> r.sourceFilePath, err |-> r.err]
    /\ InputsRest

NextDisk == ReadDisk

SpecDisk == InitDisk /\ [][NextDisk]_vars

----------------------------------------------------------------------------
(* Properties of ReadFromDisk *)

\* C38: ReadFromDisk with no path given and no file at the default location
\* returns an empty configuration and no error; with a path given at which
\* there is no file, or a file that cannot be read or cannot be parsed, it
\* returns an error
C38_ReadFromDisk ==
    rd.st = "returned" =>
        /\ (cfgpath = "" /\ fsys[DefaultConfigFilePath].kind = "absent") =>
              /\ rd.err = ""
              /\ rd.conf = ZeroConfig
        /\ (cfgpath # "" /\ fsys[cfgpath].kind # "json") => rd.err # ""

\* no path was given and there is no default file, though a custom one
\* that would not parse
C38_Witness ==
    /\ rd.st = "returned"
    /\ cfgpath = ""
    /\ fsys[DefaultConfigFilePath].kind = "absent"
    /\ fsys[CustomConfigFilePath].kind = "malformed"
    /\ rd.err = ""
    /\ rd.sourceFilePath = DefaultConfigFilePath

----------------------------------------------------------------------------
(* The environment: readEnvConfig *)

\* the parts of the Config that envconfig.Process fills, in the order of
\* the calls: the top-level options and the three collectors
Sections == <<"options", "cloud", "influxdb", "kafka">>

\* the variables of a section: none set, set to values of their types, or
\* one set to a value that does not parse as its type
EnvStates == {"unset", "valid", "malformed"}

\* envconfig.Process("k6", &part): the error, and whether the part is set
Process(e) ==
    [err |-> IF e = "malformed" THEN "envconfig.Process: " \o e ELSE "",
     set |-> e = "valid"]

\* the four calls of Process, made in order when the slice is built
ProcessAll(env) == [i \in DOMAIN Sections |-> Process(env[Sections[i]])]

\* the loop over the errors: its body returns in its first iteration
RangeReturn(errs) == IF errs = <<>> THEN "" ELSE errs[1]

\* readEnvConfig: the parts set in conf, and the error
readEnvConfig(env) ==
    LET done == ProcessAll(env) IN
    [set |-> {Sections[i] : i \in {j \in DOMAIN Sections : done[j].set}},
     err |-> RangeReturn([i \in DOMAIN Sections |-> done[i].err])]

\* any environment
InitEnv ==
    /\ InputsOnly
    /\ fsys = <<>>
    /\ cfgpath = ""
    /\ environ \in [{Sections[i] : i \in DOMAIN Sections} -> EnvStates]
    /\ rd = [st |-> "call"]

ReadEnv ==
    /\ rd.st = "call"
    /\ LET r == readEnvConfig(environ) IN
          rd' = [st |-> "returned", set |-> r.set, err |-> r.err]
    /\ InputsRest

NextEnv == ReadEnv

SpecEnv == InitEnv /\ [][NextEnv]_vars

----------------------------------------------------------------------------
(* Properties of readEnvConfig *)

\* C39: readEnvConfig returns an error whenever processing the environment
\* fails for any of its four sections, and no error only when all four
\* succeed
C39_AnySectionErrorReturned ==
    rd.st = "returned" =>
        (rd.err # "" <=>
            \E i \in DOMAIN Sections : Process(environ[Sections[i]]).err # "")

\* the options were processed and a collector's section failed
C39_CollectorErrorLost ==
    /\ rd.st = "returned"
    /\ environ["options"] = "valid"
    /\ environ["cloud"] = "malformed"
    /\ rd.err = ""

----------------------------------------------------------------------------
(* Properties of the stages shortcut *)

\* the stages shortcut is the one that was rewritten
StagesShortcut(o) ==
    /\ ~o.Iterations.Valid
    /\ ~o.Duration.Valid
    /\ Len(o.Stages.list) > 0

\* C40: the ramping-VUs executor synthesized from the stages shortcut holds
\* the input stages whose duration is set, and only those, in their
\* original order, each with its duration and its target as given
C40_StagesKept ==
    (Derived /\ StagesShortcut(applied.Options)) =>
        LET given == applied.Options.Stages.list
            kept  == {i \in DOMAIN given : given[i].Duration.Valid}
            place(i) == Cardinality({j \in kept : j <= i})
            e     == conf.Options.Execution
            out   == e.map[DefaultSchedulerName].Stages
        IN  /\ OnlyDefault(e, "variable-looping-vus")
            /\ Len(out) = Cardinality(kept)
            /\ \A i \in kept :
                  /\ out[place(i)].Duration = given[i].Duration
                  /\ out[place(i)].Target = given[i].Target

\* three stages were given, the second without a duration: the first and
\* the third are the stages of the executor
C40_Witness ==
    /\ Derived
    /\ StagesShortcut(applied.Options)
    /\ Len(applied.Options.Stages.list) = 3
    /\ Len(conf.Options.Execution.map[DefaultSchedulerName].Stages) = 2
    /\ conf.Options.Execution.map[DefaultSchedulerName].Stages[2].Duration
          = NullDurationFrom(0)
============================================================================
